---------------------------- MODULE Spec2Model ----------------------------
(***************************************************************************)
(* MacroMorphFX: scene bank, morph interpolation, macro engine, the        *)
(* tempo-synced delay (parameter path and sample loop), processBlock with  *)
(* its bypass crossfade, the real-time path beside the configuration path, *)
(* and the saved state handed back by the host, as state machines.         *)
(*                                                                         *)
(* Numbers.  The program computes in IEEE single precision.  A float is    *)
(* modelled as an integer count of quanta of 2^-FracBits, restricted to    *)
(* the integers that have at most PrecBits significant bits; every         *)
(* arithmetic operation computes the exact result and rounds it to the     *)
(* nearest such value, ties to even, as the hardware does with 24 bits.    *)
(* Sums and products that are exactly representable stay exact; the others *)
(* are rounded, so a + (b - a) need not be b.                              *)
(***************************************************************************)
EXTENDS Integers, Sequences, FiniteSets, TLC

VARIABLES
    fn, args, ret,              \* a pure function under test: which, its inputs, its result
    scenes, mappings,           \* MacroMorphFXProcessor::scenes_, MacroEngine::mappings_
    morphed, lastOp, ops,       \* processBlock's morph+macro target, the last operation, its count
    fb, delayTarget, bufSize, sampleRate, lastSet, usedFb,  \* DelayModule
    touched, lastDoc,           \* the indices the last operation used, the document it was handed
    saved,                      \* the processor as it was when the host last saved its state
    line, lineIo,               \* DelayModule: its delay lines and cursors, the sample last processed
    bypassSmooth, smoothScene,  \* bypassSmooth_, smoothScene_
    lastComputed, blockIo,      \* lastComputedParams_, the block last processed
    stages,                     \* the DSP stages of the chain: calls made, parameters, cursor
    rt, cfg                     \* the real-time and the configuration path, each at a position

fnVars    == <<fn, args, ret>>
bankVars  == <<scenes, mappings, morphed, lastOp, ops, touched, lastDoc, saved>>
delayVars == <<fb, delayTarget, bufSize, sampleRate, lastSet, usedFb>>
lineVars  == <<line, lineIo>>
blockVars == <<bypassSmooth, smoothScene, lastComputed, blockIo, stages>>
concVars  == <<rt, cfg>>
audioVars == <<lineVars, blockVars, concVars>>
vars      == <<fnVars, bankVars, delayVars, audioVars>>

--------------------------------------------------------------------------
(* Bounds of the model *)

\* significant bits of a modelled float (the program's floats have 24)
PrecBits == 15
\* a quantum is 2^-FracBits
FracBits == 11
\* configuration operations per behaviour of Spec
MaxOps == 2

--------------------------------------------------------------------------
(* Single-precision arithmetic *)

RECURSIVE Pow2(_)
Pow2(n) == IF n <= 0 THEN 1 ELSE 2 * Pow2(n - 1)

Abs(x) == IF x < 0 THEN -x ELSE x
Sgn(x) == IF x < 0 THEN -1 ELSE 1

\* how many low bits a magnitude q must drop to fit PrecBits bits
RECURSIVE ExpOver(_, _)
ExpOver(q, e) == IF q < Pow2(PrecBits) THEN e ELSE ExpOver(q \div 2, e + 1)

\* n/d (n >= 0, d > 0) rounded to the nearest integer, ties to even
RoundDiv(n, d) ==
    IF 2 * (n % d) > d \/ (2 * (n % d) = d /\ (n \div d) % 2 = 1)
    THEN (n \div d) + 1
    ELSE n \div d

\* n/d rounded to the nearest multiple of the power of two s
RoundScaled(n, d, s) == RoundDiv(n, d * s) * s

\* n/d (n >= 0, d > 0) rounded to the nearest float, ties to even
RoundQ(n, d) == RoundScaled(n, d, Pow2(ExpOver(n \div d, 0)))

FRound(x) == Sgn(x) * RoundQ(Abs(x), 1)

\* the float nearest to the decimal n/d
Dec(n, d) == Sgn(n) * RoundQ(Abs(n) * Pow2(FracBits), d)

FAdd(x, y) == FRound(x + y)
FSub(x, y) == FRound(x - y)

\* trailing zero bits and odd part of a non-zero magnitude
RECURSIVE Tz(_)
Tz(x) == IF x % 2 = 1 THEN 0 ELSE 1 + Tz(x \div 2)
OddPart(x) == x \div Pow2(Tz(x))

\* the float nearest to n * 2^s quanta
MulMag(n, s) == IF s >= 0 THEN RoundQ(n * Pow2(s), 1) ELSE RoundQ(n, Pow2(-s))

FMul(x, y) ==
    IF x = 0 \/ y = 0 THEN 0
    ELSE Sgn(x) * Sgn(y)
           * MulMag(OddPart(Abs(x)) * OddPart(Abs(y)),
                    Tz(Abs(x)) + Tz(Abs(y)) - FracBits)

\* 1.0f
One == Pow2(FracBits)

\* the largest r in lo..hi with r*r <= n, by bisection
RECURSIVE ISqrt(_, _, _)
ISqrt(n, lo, hi) ==
    IF lo >= hi THEN lo
    ELSE LET mid == (lo + hi + 1) \div 2
         IN  IF mid * mid <= n THEN ISqrt(n, mid, hi) ELSE ISqrt(n, lo, mid - 1)

\* std::sqrt on [0,1]: the float nearest to the root
RootUp(n, r) == IF n - r * r > r THEN r + 1 ELSE r
FSqrt(x) == RootUp(x * One, ISqrt(x * One, 0, One))

\* std::clamp (v, lo, hi)
Clamp(v, lo, hi) == IF v < lo THEN lo ELSE IF hi < v THEN hi ELSE v

Half == Dec(1, 2)

--------------------------------------------------------------------------
(* SceneData.h *)

kCount     == 14
kNumScenes == 8

filtMode    == 0
filtCutoff  == 1
filtReso    == 2
driveAmt    == 3
driveTone   == 4
delaySync   == 5
delayFb     == 6
delayTone   == 7
delayWidth  == 8
delayPingP  == 9
revSize     == 10
revDamp     == 11
revPreDelay == 12
revWidth    == 13

Fields == 0 .. (kCount - 1)

Inf(mn, mx, df, disc) == [minVal |-> mn, maxVal |-> mx, defaultVal |-> df, isDiscrete |-> disc]

\* SceneParam::info, in table order
info ==
    [i \in Fields |->
        CASE i = filtMode    -> Inf(0, Dec(2, 1), 0, TRUE)
          [] i = filtCutoff  -> Inf(Dec(20, 1), Dec(20000, 1), Dec(8000, 1), FALSE)
          [] i = filtReso    -> Inf(0, One, Dec(2, 10), FALSE)
          [] i = driveAmt    -> Inf(0, One, 0, FALSE)
          [] i = driveTone   -> Inf(0, One, Dec(5, 10), FALSE)
          [] i = delaySync   -> Inf(0, Dec(7, 1), Dec(2, 1), TRUE)
          [] i = delayFb     -> Inf(0, Dec(95, 100), Dec(25, 100), FALSE)
          [] i = delayTone   -> Inf(0, One, Dec(5, 10), FALSE)
          [] i = delayWidth  -> Inf(0, One, Dec(7, 10), FALSE)
          [] i = delayPingP  -> Inf(0, One, 0, TRUE)
          [] i = revSize     -> Inf(0, One, Dec(35, 100), FALSE)
          [] i = revDamp     -> Inf(0, One, Dec(5, 10), FALSE)
          [] i = revPreDelay -> Inf(0, Dec(200, 1), Dec(10, 1), FALSE)
          [] i = revWidth    -> Inf(0, One, Dec(8, 10), FALSE)]

createDefault == [i \in Fields |-> info[i].defaultVal]

\* morph with the tie t = 0.5 resolved to a
morph_TieToA(a, b, t) ==
    [i \in Fields |->
        IF info[i].isDiscrete
        THEN (IF t <= Half THEN a[i] ELSE b[i])
        ELSE FAdd(a[i], FMul(t, FSub(b[i], a[i])))]

\* morph interpolating from b towards a
morph_FromB(a, b, t) ==
    [i \in Fields |->
        IF info[i].isDiscrete
        THEN (IF t < Half THEN a[i] ELSE b[i])
        ELSE FAdd(b[i], FMul(t, FSub(a[i], b[i])))]

\* morph interpolating every field
morph_Linear(a, b, t) == [i \in Fields |-> FAdd(a[i], FMul(t, FSub(b[i], a[i])))]

\* SceneParams::morph
morph(a, b, t) ==
    [i \in Fields |->
        IF info[i].isDiscrete
        THEN (IF t < Half THEN a[i] ELSE b[i])
        ELSE FAdd(a[i], FMul(t, FSub(b[i], a[i])))]

\* SceneParams::morph beside a writer of scene a: the expression for a continuous
\* field names a.values[i] twice, and the two loads may see different values (again)
morphRacing(a, b, again, t) ==
    [i \in Fields |->
        IF info[i].isDiscrete
        THEN (IF t < Half THEN a[i] ELSE b[i])
        ELSE FAdd(a[i], FMul(t, FSub(b[i], again[i])))]

\* SceneParams::clampToRanges
ClampTo(v, inf) == Clamp(v, inf.minVal, inf.maxVal)
clampToRanges(s) == [i \in Fields |-> ClampTo(s[i], info[i])]

Within(v, inf) == inf.minVal <= v /\ v <= inf.maxVal
InRange(s) == \A i \in Fields : Within(s[i], info[i])

--------------------------------------------------------------------------
(* MacroEngine.h *)

kNumMacros == 4
Macros == 0 .. (kNumMacros - 1)

\* enum class MacroCurve
linear      == 0
exponential == 1
logarithmic == 2
sCurve      == 3
kCurveCount == 4

\* applyMacroCurve, the switch over the curve kind
CurveOf(x, curve) ==
    CASE curve = exponential -> FMul(x, x)
      [] curve = logarithmic -> FSqrt(x)
      [] curve = sCurve      -> FMul(FMul(x, x), FSub(Dec(3, 1), FMul(Dec(2, 1), x)))
      [] OTHER               -> x

\* applyMacroCurve without the clamp of its input
applyMacroCurve_NoClamp(x0, curve) == CurveOf(x0, curve)

\* applyMacroCurve
applyMacroCurve(x0, curve) == CurveOf(Clamp(x0, 0, One), curve)

\* struct MacroTarget
MacroTarget(idx, amount, curve) == [sceneParamIndex |-> idx, amount |-> amount, curve |-> curve]

\* the 0.001f below which MacroEngine::apply skips a macro
MacroSkip == Dec(1, 1000)

\* the loop body without the test for a discrete field
ApplyOffset_Discrete(params, rawMacroVal, target, inf) ==
    [params EXCEPT ![target.sceneParamIndex] =
        ClampTo(FAdd(@, FMul(FMul(applyMacroCurve(rawMacroVal, target.curve), target.amount),
                             FSub(inf.maxVal, inf.minVal))),
                inf)]

\* the loop body without the clamp after each target
ApplyOffset_NoClamp(params, rawMacroVal, target, inf) ==
    IF inf.isDiscrete THEN params
    ELSE [params EXCEPT ![target.sceneParamIndex] =
            FAdd(@, FMul(FMul(applyMacroCurve(rawMacroVal, target.curve), target.amount),
                         FSub(inf.maxVal, inf.minVal)))]

\* MacroEngine::apply, the body of the loop over one macro's targets past the test of
\* the index, inf being the info entry of the target's field: curvedVal, range, offset
\* and the clamped sum
ApplyOffset(params, rawMacroVal, target, inf) ==
    IF inf.isDiscrete THEN params
    ELSE [params EXCEPT ![target.sceneParamIndex] =
            ClampTo(FAdd(@, FMul(FMul(applyMacroCurve(rawMacroVal, target.curve), target.amount),
                                 FSub(inf.maxVal, inf.minVal))),
                    inf)]

\* MacroEngine::apply, the body of the loop over one macro's targets
ApplyTarget(params, rawMacroVal, target) ==
    IF target.sceneParamIndex < 0 \/ target.sceneParamIndex >= kCount THEN params
    ELSE ApplyOffset(params, rawMacroVal, target, info[target.sceneParamIndex])

RECURSIVE ApplyTargets(_, _, _, _)
ApplyTargets(params, rawMacroVal, targets, k) ==
    IF k > Len(targets) THEN params
    ELSE ApplyTargets(ApplyTarget(params, rawMacroVal, targets[k]), rawMacroVal, targets, k + 1)

\* one iteration of the loop over the macros without the skip of a macro near zero
ApplyMacro_NoSkip(params, rawMacroVal, targets) ==
    ApplyTargets(params, rawMacroVal, targets, 1)

\* MacroEngine::apply, one iteration of the loop over the macros
ApplyMacro(params, rawMacroVal, targets) ==
    IF rawMacroVal < MacroSkip THEN params
    ELSE ApplyTargets(params, rawMacroVal, targets, 1)

RECURSIVE ApplyFrom(_, _, _, _)
ApplyFrom(params, macroValues, maps, m) ==
    IF m >= kNumMacros THEN params
    ELSE ApplyFrom(ApplyMacro(params, macroValues[m], maps[m]), macroValues, maps, m + 1)

\* MacroEngine::apply
apply(params, macroValues, maps) == ApplyFrom(params, macroValues, maps, 0)

\* MacroEngine::initDefaultMappings
initDefaultMappings ==
    [m \in Macros |->
        CASE m = 0 -> << MacroTarget(filtCutoff, Dec(5, 10), linear),
                         MacroTarget(filtReso,   Dec(3, 10), linear) >>
          [] m = 1 -> << MacroTarget(driveAmt,   Dec(7, 10), linear),
                         MacroTarget(driveTone,  Dec(-3, 10), linear) >>
          [] m = 2 -> << MacroTarget(delayFb,     Dec(4, 10), linear),
                         MacroTarget(revSize,     Dec(5, 10), linear),
                         MacroTarget(revPreDelay, Dec(2, 10), linear) >>
          [] m = 3 -> << MacroTarget(delayWidth, Dec(3, 10), linear),
                         MacroTarget(revWidth,   Dec(2, 10), linear) >>]


--------------------------------------------------------------------------
(* PresetData.h: the base scenes *)

SceneWith(s, i, v) == [s EXCEPT ![i] = v]

\* makeBaseScenes, d being SceneParams::createDefault()
BaseScenesFrom(d) ==
        [k \in 0 .. (kNumScenes - 1) |->
          CASE k = 0 -> d
            [] k = 1 -> [d EXCEPT ![filtCutoff] = Dec(2000, 1), ![filtReso] = Dec(5, 10),
                                  ![driveAmt] = Dec(4, 10), ![driveTone] = Dec(3, 10),
                                  ![revSize] = Dec(7, 10)]
            [] k = 2 -> [d EXCEPT ![filtMode] = Dec(2, 1), ![filtCutoff] = Dec(500, 1),
                                  ![delaySync] = Dec(4, 1), ![delayFb] = Dec(6, 10),
                                  ![delayWidth] = One]
            [] k = 3 -> [d EXCEPT ![revSize] = Dec(85, 100), ![revWidth] = One,
                                  ![revPreDelay] = Dec(50, 1), ![delayWidth] = One,
                                  ![delayPingP] = One]
            [] k = 4 -> [d EXCEPT ![filtMode] = One, ![filtCutoff] = Dec(1200, 1),
                                  ![filtReso] = Dec(7, 10), ![driveAmt] = Dec(8, 10),
                                  ![driveTone] = Dec(7, 10)]
            [] k = 5 -> [d EXCEPT ![delaySync] = Dec(3, 1), ![delayFb] = Dec(7, 10),
                                  ![delayTone] = Dec(25, 100), ![delayPingP] = One,
                                  ![revSize] = Dec(5, 10)]
            [] k = 6 -> [d EXCEPT ![filtCutoff] = Dec(12000, 1), ![revSize] = Dec(9, 10),
                                  ![revDamp] = Dec(2, 10), ![revWidth] = One,
                                  ![revPreDelay] = Dec(30, 1)]
            [] k = 7 -> [d EXCEPT ![filtMode] = One, ![filtCutoff] = Dec(1500, 1),
                                  ![filtReso] = Dec(6, 10), ![driveAmt] = Dec(2, 10),
                                  ![delayFb] = 0, ![revSize] = Dec(1, 10)]]

\* makeBaseScenes
makeBaseScenes == BaseScenesFrom(createDefault)

--------------------------------------------------------------------------
(* The pure functions, each applied once to inputs drawn from bounded sets *)

FnIdle    == fn = "idle" /\ args = <<>> /\ ret = <<>>
BankIdle  == scenes = <<>> /\ mappings = <<>> /\ morphed = <<>> /\ lastOp = "idle" /\ ops = 0
             /\ touched = {} /\ lastDoc = <<>> /\ saved = <<>>
DelayIdle == fb = 0 /\ delayTarget = 0 /\ bufSize = 0 /\ sampleRate = 0
             /\ lastSet = <<>> /\ usedFb = 0
LineIdle  == line = <<>> /\ lineIo = <<>>
BlockIdle == bypassSmooth = <<>> /\ smoothScene = <<>> /\ lastComputed = <<>> /\ blockIo = <<>>
             /\ stages = <<>>
ConcIdle  == rt = <<>> /\ cfg = <<>>
AudioIdle == LineIdle /\ BlockIdle /\ ConcIdle

\* the smallest positive float of the model, one quantum
Tiny == One \div Pow2(FracBits)

\* scenes handed to morph: factory scenes, the scenario's cutoffs, cutoffs at both
\* ends of the range and one just above the lower end
MorphScenes ==
    { makeBaseScenes[0], makeBaseScenes[2], makeBaseScenes[3],
      SceneWith(makeBaseScenes[5], filtCutoff, Dec(200, 1)),
      SceneWith(makeBaseScenes[1], filtCutoff, Dec(20000, 1)),
      SceneWith(makeBaseScenes[4], filtCutoff, Dec(201, 10)) }

MorphTs == { 0, Dec(1, 4), Half - Tiny, Half, Dec(3, 4), One }

MorphInit ==
    /\ fn = "none"
    /\ args \in [a : MorphScenes, b : MorphScenes, t : MorphTs]
    /\ ret = args.a
    /\ BankIdle /\ DelayIdle /\ AudioIdle

CallMorph ==
    /\ fn = "none"
    /\ fn' = "morph"
    /\ ret' = morph(args.a, args.b, args.t)
    /\ UNCHANGED <<args, bankVars, delayVars, audioVars>>

SpecMorph == MorphInit /\ [][CallMorph]_vars

DiscreteFields   == { filtMode, delaySync, delayPingP }
ContinuousFields == Fields \ DiscreteFields

\* C3: for every discrete field, morph(a,b,t) is exactly a's value when t < 0.5 and
\* exactly b's value when t >= 0.5 (the tie goes to b); nothing else is produced.
C3_DiscreteMorph ==
    fn = "morph" =>
        \A i \in DiscreteFields :
            /\ (2 * args.t < One  => ret[i] = args.a[i])
            /\ (2 * args.t >= One => ret[i] = args.b[i])
            /\ ret[i] \in { args.a[i], args.b[i] }

C3_Witness ==
    /\ fn = "morph"
    /\ args.t = Half
    /\ args.a[filtMode] # args.b[filtMode]
    /\ ret[filtMode] = args.b[filtMode]

Max(x, y) == IF x < y THEN y ELSE x
Min(x, y) == IF y < x THEN y ELSE x

ScenarioOne ==
    (args.a[filtCutoff] = Dec(8000, 1) /\ args.b[filtCutoff] = Dec(200, 1)) =>
        /\ (args.t = 0    => ret[filtCutoff] = Dec(8000, 1))
        /\ (args.t = Half => ret[filtCutoff] = Dec(4100, 1))
        /\ (args.t = One  => ret[filtCutoff] = Dec(200, 1))

\* C4 as stated: for every continuous field morph(a,b,0) is a exactly and
\* morph(a,b,1) is b exactly, and 8000 -> 200 at 0.5 gives 4100.
C4_EndpointsExact ==
    fn = "morph" =>
        /\ \A i \in ContinuousFields :
              /\ (args.t = 0   => ret[i] = args.a[i])
              /\ (args.t = One => ret[i] = args.b[i])
        /\ ScenarioOne

\* C4 as amended: morph(a,b,0) is a exactly; morph(a,b,1) is b exactly when b - a is
\* representable in single precision and otherwise within the rounding of b - a and of
\* the sum (relative 2^-(p-2) of the larger magnitude); the scenario's values are exact.
C4_EndpointsRounded ==
    fn = "morph" =>
        /\ \A i \in ContinuousFields :
              /\ (args.t = 0 => ret[i] = args.a[i])
              /\ (args.t = One =>
                    /\ (FRound(args.b[i] - args.a[i]) = args.b[i] - args.a[i]
                            => ret[i] = args.b[i])
                    /\ Abs(ret[i] - args.b[i]) * Pow2(PrecBits - 2)
                            <= Max(Abs(args.a[i]), Abs(args.b[i])))
        /\ ScenarioOne

C4_Witness ==
    /\ fn = "morph"
    /\ args.t = One
    /\ ret[filtCutoff] # args.b[filtCutoff]
    /\ ret[filtReso] = args.b[filtReso]
    /\ args.a[filtReso] # args.b[filtReso]


--------------------------------------------------------------------------
(* applyMacroCurve on two inputs x and y *)

CurveXs ==
    { -Half, 0, Tiny, Dec(1, 4), Dec(4, 10), Dec(4, 10) + Tiny, Half, Dec(3, 4),
      One - Tiny, One, Dec(3, 2) }

\* the four kinds, and values of the enum's type that name no kind
CurveKinds == { -1, linear, exponential, logarithmic, sCurve, kCurveCount, 7 }
KnownKinds == { linear, exponential, logarithmic, sCurve }

CurveInit ==
    /\ fn = "none"
    /\ args \in [x : CurveXs, y : CurveXs, curve : CurveKinds]
    /\ ret = <<0, 0>>
    /\ BankIdle /\ DelayIdle /\ AudioIdle

CallCurve ==
    /\ fn = "none"
    /\ fn' = "curve"
    /\ ret' = << applyMacroCurve(args.x, args.curve), applyMacroCurve(args.y, args.curve) >>
    /\ UNCHANGED <<args, bankVars, delayVars, audioVars>>

SpecCurve == CurveInit /\ [][CallCurve]_vars

\* what C5 says besides monotonicity: fixed end points, result in [0,1], input clamped
\* to [0,1] before evaluation, unknown kind as Linear
CurveShape ==
    /\ (args.curve \in KnownKinds =>
          /\ (args.x = 0   => ret[1] = 0)
          /\ (args.x = One => ret[1] = One)
          /\ 0 <= ret[1] /\ ret[1] <= One
          /\ (args.x < 0   => ret[1] = 0)
          /\ (args.x > One => ret[1] = One))
    /\ (args.curve \notin KnownKinds =>
          ret[1] = (IF args.x < 0 THEN 0 ELSE IF args.x > One THEN One ELSE args.x))
    /\ (args.curve = linear /\ 0 <= args.x /\ args.x <= One => ret[1] = args.x)

InUnit(x) == 0 <= x /\ x <= One

\* C5 as stated: each of the four kinds maps 0 to 0 and 1 to 1, is monotonic
\* non-decreasing on [0,1], stays in [0,1], clamps its input, and an unknown kind is Linear.
C5_CurveMonotone ==
    fn = "curve" =>
        /\ CurveShape
        /\ (args.curve \in KnownKinds /\ InUnit(args.x) /\ InUnit(args.y) /\ args.x <= args.y
                => ret[1] <= ret[2])

\* C5 as amended: as stated, except that SCurve is monotonic only up to rounding:
\* for x <= y its value at x exceeds its value at y by at most four rounding quanta
\* (two roundings of at most half a quantum, one of them scaled by at most 3, per value).
C5_CurveMonotoneRounded ==
    fn = "curve" =>
        /\ CurveShape
        /\ (args.curve \in KnownKinds /\ InUnit(args.x) /\ InUnit(args.y) /\ args.x <= args.y
                => IF args.curve = sCurve THEN ret[1] <= ret[2] + 4 ELSE ret[1] <= ret[2])

C5_Witness ==
    /\ fn = "curve"
    /\ args.curve = sCurve
    /\ 0 < args.x /\ args.x < args.y /\ args.y < One
    /\ ret[1] > ret[2]


--------------------------------------------------------------------------
(* MacroEngine::apply on one state, one vector of macro values, one configuration *)

NoMappings == [m \in Macros |-> <<>>]

\* Scenario 2: one target {cutoff, weight 0.5, Exponential} on macro 0
ScenarioMaps ==
    [NoMappings EXCEPT ![0] = << MacroTarget(filtCutoff, Half, exponential) >>]

\* two targets of one macro on one field: up by the whole range, then down by half of it
UpDownMaps ==
    [NoMappings EXCEPT ![0] = << MacroTarget(filtCutoff, One, linear),
                                 MacroTarget(filtCutoff, -Half, linear) >>]

\* two macros on one field: macro 0 down by half the range, macro 1 up by the whole range
CrossMaps ==
    [NoMappings EXCEPT ![0] = << MacroTarget(filtCutoff, -Half, linear) >>,
                       ![1] = << MacroTarget(filtCutoff, One, linear) >>]

\* targets that name discrete fields and indices outside the field table
StrayMaps ==
    [NoMappings EXCEPT ![0] = << MacroTarget(filtMode, One, linear),
                                 MacroTarget(kCount, One, linear),
                                 MacroTarget(-1, Half, exponential),
                                 MacroTarget(delaySync, -One, linear) >>,
                       ![3] = << MacroTarget(delayPingP, One, sCurve),
                                 MacroTarget(revSize, Half, logarithmic) >>]

ApplyMaps == { initDefaultMappings, NoMappings, ScenarioMaps, UpDownMaps, CrossMaps, StrayMaps }

\* states handed to apply: the default, one near the top of the cutoff range, and
\* states holding out-of-range values
ApplyStates ==
    { createDefault,
      SceneWith(makeBaseScenes[2], filtCutoff, Dec(19000, 1)),
      SceneWith(makeBaseScenes[3], filtCutoff, Dec(50000, 1)),
      SceneWith(SceneWith(makeBaseScenes[5], filtMode, Dec(5, 1)), revSize, -Half) }

MacroVals == { 0, Tiny, Half, One }

ApplyInit ==
    /\ fn = "none"
    /\ args \in [params : ApplyStates, macroValues : [Macros -> MacroVals], maps : ApplyMaps]
    /\ ret = args.params
    /\ BankIdle /\ DelayIdle /\ AudioIdle

CallApply ==
    /\ fn = "none"
    /\ fn' = "apply"
    /\ ret' = apply(args.params, args.macroValues, args.maps)
    /\ UNCHANGED <<args, bankVars, delayVars, audioVars>>

SpecApply == ApplyInit /\ [][CallApply]_vars

\* the macro value 0.001 as a fraction, compared without rounding
BelowSkip(v) == 1000 * v < One

\* C6: with all four macro values 0 apply leaves the state unchanged, for every
\* configuration and every input state, in range or not; a macro whose value is below
\* 0.001 contributes nothing, whatever its target list.
C6_ZeroMacrosNoOp ==
    fn = "apply" =>
        /\ ((\A m \in Macros : args.macroValues[m] = 0) => ret = args.params)
        /\ ((\A m \in Macros : BelowSkip(args.macroValues[m])) => ret = args.params)
        /\ \A m \in Macros :
              BelowSkip(args.macroValues[m]) =>
                  ret = apply(args.params, args.macroValues, [args.maps EXCEPT ![m] = <<>>])

C6_Witness ==
    /\ fn = "apply"
    /\ \A m \in Macros : args.macroValues[m] = 0
    /\ args.maps = initDefaultMappings
    /\ ~InRange(args.params)
    /\ ret = args.params

C6_WitnessTiny ==
    /\ fn = "apply"
    /\ args.macroValues[0] = Tiny /\ args.macroValues[1] = One
    /\ args.maps = CrossMaps
    /\ ret # args.params

\* C7: apply never changes a discrete field, whatever the macro values and the
\* configuration, also when targets name discrete fields or indices outside 0..13.
C7_DiscreteUntouched ==
    fn = "apply" => \A i \in DiscreteFields : ret[i] = args.params[i]

C7_Witness ==
    /\ fn = "apply"
    /\ args.maps = StrayMaps
    /\ args.macroValues[0] = One /\ args.macroValues[3] = One
    /\ ret # args.params
    /\ \A i \in DiscreteFields : ret[i] = args.params[i]

CutoffMin == info[filtCutoff].minVal
CutoffMax == info[filtCutoff].maxVal
ClampCutoff(v) == Clamp(v, CutoffMin, CutoffMax)

--------------------------------------------------------------------------
(* PresetData.h: the factory presets *)

\* transformScenes
transformScenes(bank, paramIdx, addAmount, mulAmount) ==
    [k \in 0 .. (kNumScenes - 1) |->
        [bank[k] EXCEPT ![paramIdx] =
            ClampTo(FAdd(FMul(@, mulAmount), addAmount), info[paramIdx])]]

\* makeDefaultMacros
makeDefaultMacros == initDefaultMappings

T(i, n, d) == MacroTarget(i, Dec(n, d), linear)

\* createFactoryPresets: the scenes of each preset, the base scenes transformed in
\* the order of the calls
darkAmbienceScenes ==
    transformScenes(transformScenes(transformScenes(transformScenes(transformScenes(
        makeBaseScenes, filtCutoff, 0, Dec(35, 100)),
                        revSize, Dec(3, 10), One),
                        revDamp, Dec(15, 100), One),
                        driveTone, 0, Dec(5, 10)),
                        delayTone, 0, Dec(5, 10))

rhythmicDelayScenes ==
    transformScenes(transformScenes(transformScenes(
        makeBaseScenes, delayFb, Dec(2, 10), One),
                        delayWidth, Dec(15, 100), One),
                        revSize, 0, Dec(5, 10))

loFiScenes ==
    transformScenes(transformScenes(transformScenes(
        makeBaseScenes, filtCutoff, 0, Dec(5, 10)),
                        driveAmt, Dec(25, 100), One),
                        filtReso, Dec(1, 10), One)

shimmerPadScenes ==
    transformScenes(transformScenes(transformScenes(transformScenes(transformScenes(
        makeBaseScenes, filtCutoff, 0, Dec(15, 10)),
                        revSize, Dec(4, 10), One),
                        revDamp, 0, Dec(3, 10)),
                        revWidth, Dec(2, 10), One),
                        driveAmt, 0, Dec(3, 10))

dubStationScenes ==
    transformScenes(transformScenes(transformScenes(
        makeBaseScenes, delayFb, Dec(25, 100), One),
                        delayTone, 0, Dec(4, 10)),
                        revSize, Dec(15, 100), One)

distortionBoxScenes ==
    transformScenes(transformScenes(transformScenes(transformScenes(
        makeBaseScenes, driveAmt, Dec(4, 10), One),
                        filtCutoff, 0, Dec(6, 10)),
                        revSize, 0, Dec(3, 10)),
                        delayFb, 0, Dec(5, 10))

wideStereoWidened ==
    transformScenes(transformScenes(transformScenes(
        makeBaseScenes, delayWidth, Dec(2, 10), One),
                        revWidth, Dec(2, 10), One),
                        revPreDelay, Dec(15, 1), One)

\* createFactoryPresets, the loop setting ping-pong where the feedback is above 0.1
PingPongWhereFeedback(bank) ==
    [k \in 0 .. (kNumScenes - 1) |->
        IF bank[k][delayFb] > Dec(1, 10)
        THEN [bank[k] EXCEPT ![delayPingP] = One]
        ELSE bank[k]]

wideStereoScenes == PingPongWhereFeedback(wideStereoWidened)

\* createFactoryPresets: the scenes of preset p
PresetScenes(p) ==
    CASE p = 0 -> makeBaseScenes
      [] p = 1 -> darkAmbienceScenes
      [] p = 2 -> rhythmicDelayScenes
      [] p = 3 -> loFiScenes
      [] p = 4 -> shimmerPadScenes
      [] p = 5 -> dubStationScenes
      [] p = 6 -> distortionBoxScenes
      [] OTHER -> wideStereoScenes

\* createFactoryPresets: the macro targets of preset p, each list cut to its numTargets
PresetMacros(p) ==
    LET dm == makeDefaultMacros
    IN  CASE p = 1 -> [dm EXCEPT ![0] = << T(filtCutoff, 8, 10), T(revDamp, -3, 10) >>,
                                 ![2] = << T(revSize, 6, 10), T(revPreDelay, 4, 10) >>]
          [] p = 2 -> [dm EXCEPT ![2] = << T(delayFb, 5, 10), T(delayWidth, 3, 10),
                                           T(delayTone, -4, 10) >>]
          [] p = 3 -> [dm EXCEPT ![1] = << T(driveAmt, 5, 10), T(driveTone, -4, 10),
                                           T(filtCutoff, -3, 10) >>]
          [] p = 4 -> [dm EXCEPT ![0] = << T(filtCutoff, 4, 10), T(revSize, 3, 10) >>]
          [] p = 5 -> [dm EXCEPT ![2] = << T(delayFb, 3, 10), T(revSize, 4, 10),
                                           T(delayTone, -3, 10) >>]
          [] p = 6 -> [dm EXCEPT ![1] = << T(driveAmt, 4, 10), T(driveTone, 5, 10) >>]
          [] p = 7 -> [dm EXCEPT ![3] = << T(delayWidth, 4, 10), T(revWidth, 3, 10),
                                           T(revPreDelay, 3, 10) >>]
          [] OTHER -> dm

kNumFactoryPresets == 8

--------------------------------------------------------------------------
(* MacroEngine: mapping access *)

\* MacroEngine::setMappings
setMappings(maps, macroIndex, targets) ==
    IF macroIndex >= 0 /\ macroIndex < kNumMacros
    THEN [maps EXCEPT ![macroIndex] = targets]
    ELSE maps

\* MacroEngine::clearAllMappings
clearAllMappings(maps) == [m \in DOMAIN maps |-> <<>>]


--------------------------------------------------------------------------
(* MacroMorphFXProcessor: the scene bank and the macro lists *)

Slots == 0 .. (kNumScenes - 1)

\* the identifier of each field, as the info table names it (Params::ID)
paramId ==
    [i \in Fields |->
        CASE i = filtMode    -> "filtMode"
          [] i = filtCutoff  -> "filtCutoff"
          [] i = filtReso    -> "filtReso"
          [] i = driveAmt    -> "driveAmt"
          [] i = driveTone   -> "driveTone"
          [] i = delaySync   -> "delaySync"
          [] i = delayFb     -> "delayFb"
          [] i = delayTone   -> "delayTone"
          [] i = delayWidth  -> "delayWidth"
          [] i = delayPingP  -> "delayPingP"
          [] i = revSize     -> "revSize"
          [] i = revDamp     -> "revDamp"
          [] i = revPreDelay -> "revPreDelay"
          [] i = revWidth    -> "revWidth"]

\* std::clamp (static_cast<int> (raw), 0, kNumScenes - 1) of a scene selector
SceneSel(raw) == Clamp(raw, 0, kNumScenes - 1)

\* processBlock, the scene / morph / macro pipeline: the selectors cast and clamped,
\* the two scenes morphed, the macro offsets applied
MorphMacro(bank, maps, rawA, rawB, morphVal, macroValues) ==
    apply(morph(bank[SceneSel(rawA)], bank[SceneSel(rawB)], morphVal), macroValues, maps)

\* setSceneParam
setSceneParam(bank, sceneIndex, paramIndex, value) ==
    IF sceneIndex >= 0 /\ sceneIndex < kNumScenes /\ paramIndex >= 0 /\ paramIndex < kCount
    THEN [bank EXCEPT ![sceneIndex][paramIndex] = value]
    ELSE bank

\* storeScene: the slot takes the 14 module parameters of the value tree
storeScene(bank, sceneIndex, moduleParams) ==
    IF sceneIndex < 0 \/ sceneIndex >= kNumScenes THEN bank
    ELSE [bank EXCEPT ![sceneIndex] = [q \in Fields |-> moduleParams[q]]]

\* storeCurrentToScene storing the morph without the macro offsets
storeCurrentToScene_NoMacros(bank, maps, sceneIndex, rawA, rawB, morphVal, macroValues) ==
    IF sceneIndex < 0 \/ sceneIndex >= kNumScenes THEN bank
    ELSE [bank EXCEPT ![sceneIndex] =
             morph(bank[Clamp(rawA, 0, kNumScenes - 1)], bank[Clamp(rawB, 0, kNumScenes - 1)],
                   morphVal)]

\* storeCurrentToScene: its own reading of the selectors, the morph position and the
\* macros, its own morph and apply, then the assignment to the slot
storeCurrentToScene(bank, maps, sceneIndex, rawA, rawB, morphVal, macroValues) ==
    IF sceneIndex < 0 \/ sceneIndex >= kNumScenes THEN bank
    ELSE [bank EXCEPT ![sceneIndex] =
             apply(morph(bank[Clamp(rawA, 0, kNumScenes - 1)],
                         bank[Clamp(rawB, 0, kNumScenes - 1)], morphVal),
                   macroValues, maps)]

\* loadFactoryPresetData: the scenes, then the macro lists cleared and set one by one
RECURSIVE LoadMacros(_, _, _)
LoadMacros(maps, preset, m) ==
    IF m >= kNumMacros THEN maps
    ELSE LoadMacros(setMappings(maps, m, PresetMacros(preset)[m]), preset, m + 1)

loadFactoryPresetData(bank, maps, index) ==
    IF index < 0 \/ index >= kNumFactoryPresets
    THEN [scenes |-> bank, mappings |-> maps]
    ELSE [scenes |-> PresetScenes(index),
          mappings |-> LoadMacros(clearAllMappings(maps), index, 0)]

\* the decimal digits of a fraction r / One
RECURSIVE fractionDigits(_)
fractionDigits(r) ==
    IF r = 0 THEN <<>> ELSE << (r * 10) \div One >> \o fractionDigits((r * 10) % One)

\* setAttribute keeping three digits of the fraction
doubleText_Short(x) ==
    [neg |-> x < 0, int |-> Abs(x) \div One,
     frac |-> SubSeq(fractionDigits(Abs(x) % One), 1,
                     Min(3, Len(fractionDigits(Abs(x) % One))))]

\* XmlElement::setAttribute (name, double): the number as decimal text, held as its
\* sign, its integer part and the digits of its fraction
doubleText(x) == [neg |-> x < 0, int |-> Abs(x) \div One, frac |-> fractionDigits(Abs(x) % One)]

\* the attributes of a <Scene> element written from values
attributes(values) == [q \in DOMAIN values |-> doubleText(values[q])]

\* getDoubleAttribute: the number a decimal text stands for
RECURSIVE fractionOf(_, _)
fractionOf(digits, k) ==
    IF k > Len(digits) THEN 0
    ELSE RoundDiv(digits[k] * One + fractionOf(digits, k + 1), 10)

getDoubleAttribute(text) ==
    (IF text.neg THEN -1 ELSE 1) * (text.int * One + fractionOf(text.frac, 1))

\* static_cast<float> (getDoubleAttribute (name))
floatAttribute(text) == FRound(getDoubleAttribute(text))

\* setStateInformation, scene restore: one <Scene> element
RestoreScene(bank, elem) ==
    IF elem.index < 0 \/ elem.index >= kNumScenes THEN bank
    ELSE [bank EXCEPT ![elem.index] =
             [q \in Fields |-> IF q \in DOMAIN elem.attrs THEN floatAttribute(elem.attrs[q])
                                                         ELSE @[q]]]

RECURSIVE RestoreScenes(_, _, _)
RestoreScenes(bank, elems, k) ==
    IF k > Len(elems) THEN bank
    ELSE RestoreScenes(RestoreScene(bank, elems[k]), elems, k + 1)

\* setStateInformation, macro restore: the targets of one <Macro> element; a target
\* whose param names no field is dropped, its curve is clamped to the four kinds
RECURSIVE ReadTargets(_, _)
ReadTargets(telems, k) ==
    IF k > Len(telems) THEN <<>>
    ELSE LET e     == telems[k]
             curve == Clamp(e.curve, 0, kCurveCount - 1)
             hit   == { q \in Fields : paramId[q] = e.param }
             rest  == ReadTargets(telems, k + 1)
         IN  IF hit = {} THEN rest
             ELSE << MacroTarget(CHOOSE q \in hit : TRUE, floatAttribute(e.amount), curve) >>
                  \o rest

RECURSIVE RestoreMacros(_, _, _)
RestoreMacros(maps, elems, k) ==
    IF k > Len(elems) THEN maps
    ELSE IF elems[k].index < 0 \/ elems[k].index >= kNumMacros
         THEN RestoreMacros(maps, elems, k + 1)
         ELSE RestoreMacros(setMappings(maps, elems[k].index, ReadTargets(elems[k].targets, 1)),
                            elems, k + 1)

\* setStateInformation
setStateInformation(bank, maps, doc) ==
    IF doc.tag # "MacroMorphFXPreset"
    THEN [scenes |-> bank, mappings |-> maps]
    ELSE [scenes   |-> IF doc.hasScenes THEN RestoreScenes(bank, doc.sceneElems, 1) ELSE bank,
          mappings |-> IF doc.hasMacros
                       THEN RestoreMacros(clearAllMappings(maps), doc.macroElems, 1)
                       ELSE maps]


--------------------------------------------------------------------------
(* The processor as a state machine: the host and the editor call its public
   operations in any order; processBlock computes the morph + macro target. *)

\* values handed to setSceneParam: inside the cutoff range, above it, below zero
EditValues == { Dec(200, 1), Dec(50000, 1), -Half }
EditScenes == { -1, 0, kNumScenes }
EditParams == { -1, filtCutoff, delayFb, kCount }

\* the module parameters of the value tree, each held inside its range by the host
ModuleStates == { createDefault, makeBaseScenes[3] }

\* performance parameters of the value tree
SelValues   == { 0, 1 }
MorphValues == { 0, Half, One }
MacroVecs   == { [m \in Macros |-> 0], [m \in Macros |-> One] }

\* documents handed to setStateInformation
NoAttrs == [q \in {} |-> 0]
Doc(tag, hasScenes, sceneElems, hasMacros, macroElems) ==
    [tag |-> tag, hasScenes |-> hasScenes, sceneElems |-> sceneElems,
     hasMacros |-> hasMacros, macroElems |-> macroElems]
SceneElem(index, attrs) == [index |-> index, attrs |-> attrs]
MacroElem(index, targets) == [index |-> index, targets |-> targets]
TargetElem(param, amount, curve) == [param |-> param, amount |-> amount, curve |-> curve]

Docs ==
    { Doc("MacroMorphFXState", FALSE, <<>>, FALSE, <<>>),
      Doc("MacroMorphFXPreset", FALSE, <<>>, FALSE, <<>>),
      Doc("MacroMorphFXPreset", TRUE,
          << SceneElem(1, attributes(makeBaseScenes[4])),
             SceneElem(-1, attributes(makeBaseScenes[5])),
             SceneElem(kNumScenes, attributes(makeBaseScenes[5])) >>,
          FALSE, <<>>),
      Doc("MacroMorphFXPreset", TRUE,
          << SceneElem(2, attributes((revSize :> Dec(3, 1)) @@ (filtReso :> Dec(1, 2)))) >>,
          TRUE,
          << MacroElem(0, << TargetElem("filtCutoff", doubleText(Half), 7),
                             TargetElem("noSuchParam", doubleText(One), 0),
                             TargetElem("revSize", doubleText(-Half), -2) >>),
             MacroElem(kNumMacros, << TargetElem("filtReso", doubleText(One), 0) >>) >>),
      Doc("MacroMorphFXPreset", FALSE, <<>>, TRUE, <<>>) }

\* target lists handed to MacroEngine::setMappings: none, one target, and one target
\* whose field index is past the table
EditTargets == { <<>>, << MacroTarget(delayFb, One, exponential) >>,
                 << MacroTarget(kCount, Half, linear) >> }

\* static_cast<int> of a float
IntOf(x) == Sgn(x) * (Abs(x) \div One)

\* an element of a container reached by an operation: scenes_[i], SceneParam::info[i],
\* SceneParams::values[i], mappings_[i], noteBeats[i]
Used(container, i) == << container, i >>

\* the elements each container holds
Extent(container) ==
    CASE container = "scenes_"   -> Slots
      [] container = "info"      -> Fields
      [] container = "values"    -> Fields
      [] container = "mappings_" -> Macros
      [] container = "noteBeats" -> 0 .. 7

\* getScene
getScene(bank, index) == bank[Clamp(index, 0, kNumScenes - 1)]
getSceneUses(index) == { Used("scenes_", Clamp(index, 0, kNumScenes - 1)) }

setSceneParamUses(sceneIndex, paramIndex) ==
    IF sceneIndex >= 0 /\ sceneIndex < kNumScenes /\ paramIndex >= 0 /\ paramIndex < kCount
    THEN { Used("scenes_", sceneIndex), Used("values", paramIndex) }
    ELSE {}

allFieldsUses == { Used("info", q) : q \in Fields } \cup { Used("values", q) : q \in Fields }

storeSceneUses(sceneIndex) ==
    IF sceneIndex < 0 \/ sceneIndex >= kNumScenes THEN {}
    ELSE { Used("scenes_", sceneIndex) } \cup allFieldsUses

\* MacroEngine::apply: the index of a target is checked before info and values are reached
targetUses(target) ==
    IF target.sceneParamIndex < 0 \/ target.sceneParamIndex >= kCount THEN {}
    ELSE { Used("info", target.sceneParamIndex), Used("values", target.sceneParamIndex) }

listUses(targets) == UNION { targetUses(targets[k]) : k \in DOMAIN targets }

applyUses(maps, macroValues) ==
    UNION { { Used("mappings_", m) } \cup listUses(maps[m]) :
            m \in { q \in Macros : macroValues[q] >= MacroSkip } }

morphMacroUses(maps, rawA, rawB, macroValues) ==
    { Used("scenes_", SceneSel(rawA)), Used("scenes_", SceneSel(rawB)) }
    \cup { Used("values", q) : q \in Fields } \cup applyUses(maps, macroValues)

storeCurrentToSceneUses(maps, sceneIndex, rawA, rawB, macroValues) ==
    IF sceneIndex < 0 \/ sceneIndex >= kNumScenes THEN {}
    ELSE { Used("scenes_", sceneIndex) } \cup morphMacroUses(maps, rawA, rawB, macroValues)

\* processBlock: the scene selectors, apply, and the delay's note table reached with the
\* clamped sync index (the filter mode goes through a switch with a default)
processBlockUses(maps, rawA, rawB, macroValues, target) ==
    morphMacroUses(maps, rawA, rawB, macroValues)
    \cup { Used("noteBeats", Clamp(IntOf(target[delaySync]), 0, 7)) }

loadFactoryPresetUses(index) ==
    IF index < 0 \/ index >= kNumFactoryPresets THEN {}
    ELSE { Used("scenes_", i) : i \in Slots } \cup { Used("mappings_", m) : m \in Macros }

\* setStateInformation: the slots and lists of the elements whose index passes the check
setStateInformationUses(doc) ==
    IF doc.tag # "MacroMorphFXPreset" THEN {}
    ELSE { Used("scenes_", doc.sceneElems[k].index) :
             k \in { j \in DOMAIN doc.sceneElems : doc.hasScenes
                        /\ doc.sceneElems[j].index >= 0 /\ doc.sceneElems[j].index < kNumScenes } }
         \cup { Used("mappings_", doc.macroElems[k].index) :
                  k \in { j \in DOMAIN doc.macroElems : doc.hasMacros
                        /\ doc.macroElems[j].index >= 0 /\ doc.macroElems[j].index < kNumMacros } }
         \cup (IF doc.hasMacros THEN { Used("mappings_", m) : m \in Macros } ELSE {})
         \cup (IF doc.hasMacros \/ doc.hasScenes THEN { Used("info", q) : q \in Fields } ELSE {})

setMappingsUses(macroIndex) ==
    IF macroIndex >= 0 /\ macroIndex < kNumMacros THEN { Used("mappings_", macroIndex) } ELSE {}

\* getStateInformation: every slot and field, every list, and SceneParam::info at the
\* index of every target, which is not checked
savedTargetUses(targets) == { Used("info", targets[k].sceneParamIndex) : k \in DOMAIN targets }

getStateInformationUses(maps) ==
    { Used("scenes_", i) : i \in Slots } \cup allFieldsUses
    \cup { Used("mappings_", m) : m \in Macros }
    \cup UNION { savedTargetUses(maps[m]) : m \in Macros }

\* getStateInformation: the document written; the name of a field past the table is
\* whatever lies behind it
savedName(idx) == IF idx \in Fields THEN paramId[idx] ELSE "?"

savedTargets(targets) ==
    [k \in DOMAIN targets |->
        TargetElem(savedName(targets[k].sceneParamIndex), doubleText(targets[k].amount),
                   targets[k].curve)]

getStateInformation(bank, maps) ==
    Doc("MacroMorphFXPreset", TRUE, [k \in 1 .. kNumScenes |-> SceneElem(k - 1, attributes(bank[k - 1]))],
        TRUE, [k \in 1 .. kNumMacros |-> MacroElem(k - 1, savedTargets(maps[k - 1]))])

\* the members as the constructor leaves them
Constructed(c) == scenes = c.scenes /\ mappings = c.mappings

\* the members as an operation returning r leaves them
Becomes(r) == scenes' = r.scenes /\ mappings' = r.mappings

Init ==
    /\ Constructed(loadFactoryPresetData([i \in Slots |-> createDefault],
                                         initDefaultMappings, 0))
    /\ morphed = createDefault
    /\ lastOp = "construct"
    /\ ops = 0
    /\ touched = {}
    /\ lastDoc = <<>>
    /\ saved = <<>>
    /\ FnIdle
    /\ DelayIdle /\ AudioIdle

Step(name) ==
    /\ ops < MaxOps
    /\ ops' = ops + 1
    /\ lastOp' = name
    /\ UNCHANGED <<fnVars, delayVars, audioVars>>

\* the indices an operation used and the document it read or wrote
Saw(uses, doc) == touched' = uses /\ lastDoc' = doc /\ saved' = saved

GetScene ==
    \E index \in {-1, 3, kNumScenes} :
        /\ Step("getScene")
        /\ Saw(getSceneUses(index), <<>>)
        /\ UNCHANGED <<scenes, mappings, morphed>>

GetStateInformation ==
    /\ Step("getStateInformation")
    /\ Saw(getStateInformationUses(mappings), getStateInformation(scenes, mappings))
    /\ UNCHANGED <<scenes, mappings, morphed>>

SetSceneParam ==
    \E si \in EditScenes, pi \in EditParams, v \in EditValues :
        /\ Step("setSceneParam")
        /\ scenes' = setSceneParam(scenes, si, pi, v)
        /\ Saw(setSceneParamUses(si, pi), <<>>)
        /\ UNCHANGED <<mappings, morphed>>

StoreScene ==
    \E si \in {-1, 1, kNumScenes}, mp \in ModuleStates :
        /\ Step("storeScene")
        /\ scenes' = storeScene(scenes, si, mp)
        /\ Saw(storeSceneUses(si), <<>>)
        /\ UNCHANGED <<mappings, morphed>>

\* the performance parameters an operation read from the value tree
Controls(sceneIndex, rawA, rawB, morphVal, macroValues) ==
    [sceneIndex |-> sceneIndex, sceneA |-> rawA, sceneB |-> rawB, morph |-> morphVal,
     macros |-> macroValues]

\* the calls of storeCurrentToScene: the slot outside the bank, the slot that is
\* scene B, a slot that is neither scene; the selectors in and out of range
StoreCases ==
    { Controls(-1, 0, 1, Half, [m \in Macros |-> One]),
      Controls(kNumScenes, 1, 3, One, [m \in Macros |-> 0]),
      Controls(1, -1, 1, Half, [m \in Macros |-> One]),
      Controls(1, 1, 3, 0, [m \in Macros |-> 0]),
      Controls(2, 3, kNumScenes, Half, [m \in Macros |-> 0]),
      Controls(2, 0, 1, One, [m \in Macros |-> One]) }

StoreCurrentToScene ==
    \E c \in StoreCases :
        /\ Step("storeCurrentToScene")
        /\ scenes' = storeCurrentToScene(scenes, mappings, c.sceneIndex, c.sceneA, c.sceneB,
                                         c.morph, c.macros)
        /\ Saw(storeCurrentToSceneUses(mappings, c.sceneIndex, c.sceneA, c.sceneB, c.macros), c)
        /\ UNCHANGED <<mappings, morphed>>

LoadFactoryPreset ==
    \E index \in {-1, 0, 3, kNumFactoryPresets} :
        /\ Step("loadFactoryPreset")
        /\ Becomes(loadFactoryPresetData(scenes, mappings, index))
        /\ Saw(loadFactoryPresetUses(index), <<>>)
        /\ UNCHANGED morphed

SetStateInformation ==
    \E doc \in Docs :
        /\ Step("setStateInformation")
        /\ Becomes(setStateInformation(scenes, mappings, doc))
        /\ Saw(setStateInformationUses(doc), doc)
        /\ UNCHANGED morphed

SetMappings ==
    \E m \in {-1, 2, kNumMacros}, targets \in EditTargets :
        /\ Step("setMappings")
        /\ mappings' = setMappings(mappings, m, targets)
        /\ Saw(setMappingsUses(m), <<>>)
        /\ UNCHANGED <<scenes, morphed>>

\* processBlock, the scene / morph / macro pipeline
ProcessBlock ==
    \E ra \in SelValues, rb \in SelValues, t \in MorphValues, mv \in MacroVecs :
        /\ Step("processBlock")
        /\ morphed' = MorphMacro(scenes, mappings, ra, rb, t, mv)
        /\ Saw(processBlockUses(mappings, ra, rb, mv, morphed'), <<>>)
        /\ UNCHANGED <<scenes, mappings>>

Next ==
    \/ GetScene
    \/ GetStateInformation
    \/ SetSceneParam
    \/ StoreScene
    \/ StoreCurrentToScene
    \/ LoadFactoryPreset
    \/ SetStateInformation
    \/ SetMappings
    \/ ProcessBlock

Spec == Init /\ [][Next]_vars

\* C2: every field of every scene slot is within its range after any sequence
\* of setSceneParam, storeScene, storeCurrentToScene, loadFactoryPreset and
\* setStateInformation calls.
C2_BankInRange == \A i \in Slots : InRange(scenes[i])

\* C1: every field of the state computed by morph followed by apply lies
\* within the field's range, for every bank the public operations can reach.
C1_TargetInRange == lastOp = "processBlock" => InRange(morphed)


--------------------------------------------------------------------------
(* DelayModule *)

\* fractional bits kept of a delay time in samples
DelayFracBits == 3
Sample == Pow2(DelayFracBits)

\* noteBeats[], in eighths of a beat
noteBeats == << 1, 2, 4, 8, 16, 32, 6, 12 >>

\* the 0.95f of DelayModule::setParameters
FbCap == Dec(95, 100)

\* setParameters keeping any requested feedback
setParameters_NoCap(sr, bs, syncIndex, feedback, bpm) ==
    LET idx      == Clamp(syncIndex, 0, 7)
        beats    == noteBeats[idx + 1]
        safeBpm  == IF bpm > 20 THEN bpm ELSE 120
        newDelay == RoundDiv(beats * 60 * sr * Sample, 8 * safeBpm)
    IN  [fb |-> feedback,
         delayTarget |-> Clamp(newDelay, Sample, (bs - 1) * Sample)]

\* setParameters taking a host tempo of exactly 20 as reported
setParameters_GeBpm(sr, bs, syncIndex, feedback, bpm) ==
    LET idx      == Clamp(syncIndex, 0, 7)
        beats    == noteBeats[idx + 1]
        safeBpm  == IF bpm >= 20 THEN bpm ELSE 120
        newDelay == RoundDiv(beats * 60 * sr * Sample, 8 * safeBpm)
    IN  [fb |-> Min(feedback, FbCap),
         delayTarget |-> Clamp(newDelay, Sample, (bs - 1) * Sample)]

\* DelayModule::setParameters: the feedback coefficient and the target of smoothDelay_.
\* The product beats * (60.0 / safeBpm) * sampleRate is formed in double precision and
\* converted to float; the conversion is the rounding to a multiple of 1/Sample.
setParameters(sr, bs, syncIndex, feedback, bpm) ==
    LET idx      == Clamp(syncIndex, 0, 7)
        beats    == noteBeats[idx + 1]
        safeBpm  == IF bpm > 20 THEN bpm ELSE 120
        newDelay == RoundDiv(beats * 60 * sr * Sample, 8 * safeBpm)
    IN  [fb |-> Min(feedback, FbCap),
         delayTarget |-> Clamp(newDelay, Sample, (bs - 1) * Sample)]

SampleRates == { 44100, 48000 }
SyncValues  == -1 .. 8
FbValues    == { -Half, 0, Dec(1, 4), FbCap, FbCap + Tiny, One, Dec(3, 1) }
BpmValues   == { 0, 20, 21, 30, 60, 120, 140, 400000 }

\* a constructed DelayModule
DelayInit ==
    /\ fb = Dec(25, 100)
    /\ delayTarget = 0
    /\ bufSize = 0
    /\ sampleRate = 44100
    /\ lastSet = <<>>
    /\ usedFb = 0
    /\ FnIdle /\ BankIdle /\ AudioIdle

\* DelayModule::prepare
Prepare ==
    \E sr \in SampleRates :
        /\ sampleRate' = sr
        /\ bufSize' = sr * 2
        /\ delayTarget' = ((sr * 2) \div 4) * Sample
        /\ lastSet' = <<>>
        /\ UNCHANGED <<fb, usedFb, fnVars, bankVars, audioVars>>

\* fb and the target of smoothDelay_ as setParameters returning r leaves them
Configured(r) == fb' = r.fb /\ delayTarget' = r.delayTarget

\* DelayModule::setParameters, called by processBlock once prepareToPlay has run
SetParameters ==
    \E syncIndex \in SyncValues, feedback \in FbValues, bpm \in BpmValues :
        /\ bufSize > 0
        /\ Configured(setParameters(sampleRate, bufSize, syncIndex, feedback, bpm))
        /\ lastSet' = << syncIndex, feedback, bpm >>
        /\ UNCHANGED <<bufSize, sampleRate, usedFb, fnVars, bankVars, audioVars>>

\* DelayModule::process: the coefficient that multiplies the fed-back sample
Process ==
    /\ bufSize > 0
    /\ usedFb' = fb
    /\ UNCHANGED <<fb, delayTarget, bufSize, sampleRate, lastSet, fnVars, bankVars, audioVars>>

DelayNext == Prepare \/ SetParameters \/ Process

SpecDelay == DelayInit /\ [][DelayNext]_vars

\* C9: after any sequence of setParameters calls with arbitrary requested feedback
\* values, the feedback coefficient that process uses is never above 0.95.
C9_FeedbackCapped == fb <= Dec(95, 100) /\ usedFb <= Dec(95, 100)

C9_Witness ==
    /\ Len(lastSet) = 3
    /\ lastSet[2] > Dec(95, 100)
    /\ usedFb = Dec(95, 100)

\* C10: setParameters sets the delay-time target to
\* clamp(beats(idx) * (60 / safeBpm) * sampleRate, 1, capacity - 1), idx the sync index
\* clamped to 0..7, beats = {0.125, 0.25, 0.5, 1, 2, 4, 0.75, 1.5}, safeBpm the host
\* bpm when bpm > 20 and 120 otherwise; sync index 3 at 120 BPM and 48000 Hz gives
\* exactly 24000 samples.  The product is compared as a fraction, the target being
\* within half a rounding step of it.
C10_DelayTarget ==
    Len(lastSet) = 3 =>
        LET syncIndex == lastSet[1]
            bpm       == lastSet[3]
            idx       == IF syncIndex < 0 THEN 0 ELSE IF syncIndex > 7 THEN 7 ELSE syncIndex
            beats8    == CASE idx = 0 -> 1 [] idx = 1 -> 2 [] idx = 2 -> 4 [] idx = 3 -> 8
                           [] idx = 4 -> 16 [] idx = 5 -> 32 [] idx = 6 -> 6 [] idx = 7 -> 12
            safeBpm   == IF bpm > 20 THEN bpm ELSE 120
            num       == beats8 * 60 * sampleRate
            den       == 8 * safeBpm
            capacity  == bufSize
        IN  /\ capacity = 2 * sampleRate
            /\ IF num < den THEN delayTarget = Sample
               ELSE IF num \div den >= capacity \/ (num \div den = capacity - 1 /\ num % den > 0)
                    THEN delayTarget = (capacity - 1) * Sample
               ELSE Abs(delayTarget * den - num * Sample) * 2 <= den
            /\ (syncIndex = 3 /\ bpm = 120 /\ sampleRate = 48000
                    => delayTarget = 24000 * Sample)

C10_Witness ==
    /\ Len(lastSet) = 3
    /\ lastSet[1] = 3 /\ lastSet[3] = 120
    /\ sampleRate = 48000
    /\ delayTarget = 24000 * Sample


\* C24: for every sync index and every tempo the stage takes (the host's above 20,
\* 120 otherwise), beats * (60 / bpm) * sampleRate is at most capacity - 1, so that
\* the clamp leaves the delay time of every note value as the tempo gives it.
C24_CapacityCoversSync ==
    Len(lastSet) = 3 =>
        LET idx     == Clamp(lastSet[1], 0, 7)
            safeBpm == IF lastSet[3] > 20 THEN lastSet[3] ELSE 120
            num     == noteBeats[idx + 1] * 60 * sampleRate
            den     == 8 * safeBpm
        IN  /\ \/ num \div den < bufSize - 1
               \/ num \div den = bufSize - 1 /\ num % den = 0
            /\ Abs(delayTarget * den - num * Sample) * 2 <= den \/ delayTarget = Sample

\* one bar at the tempo taken for a host that reports none: cut to capacity - 1
C24_BarAtFallback ==
    /\ Len(lastSet) = 3 /\ lastSet[1] = 5 /\ lastSet[3] = 0
    /\ delayTarget = (bufSize - 1) * Sample
    /\ 4 * 60 * sampleRate > (bufSize - 1) * 120

--------------------------------------------------------------------------
(* juce::SmoothedValue<float, ValueSmoothingTypes::Linear>, the library class behind
   smoothDelay_, smoothScene_ and bypassSmooth_ *)

Smoothed(cur, tgt, cd, st, steps) ==
    [currentValue |-> cur, target |-> tgt, countdown |-> cd, step |-> st, stepsToTarget |-> steps]

\* a default-constructed SmoothedValue
smDefault == Smoothed(0, 0, 0, 0, 0)

\* x / n in single precision, n a positive count of steps
FDivInt(x, n) == Sgn(x) * RoundQ(Abs(x), n)

\* x / y in single precision, for magnitudes below a thousand
FDiv(x, y) == Sgn(x) * Sgn(y) * RoundQ(Abs(x) * One, Abs(y))

smIsSmoothing(sv) == sv.countdown > 0

smSetCurrentAndTargetValue(sv, v) ==
    [sv EXCEPT !.currentValue = v, !.target = v, !.countdown = 0]

\* reset (sampleRate, rampLengthInSeconds), the ramp length given in milliseconds:
\* stepsToTarget = floor (seconds * sampleRate), then setCurrentAndTargetValue (target)
smReset(sv, sr, ms) ==
    [sv EXCEPT !.stepsToTarget = (ms * sr) \div 1000, !.currentValue = sv.target, !.countdown = 0]

\* setTargetValue: no change for the target already set, a jump without a ramp length,
\* else a ramp of stepsToTarget steps from the current value
smSetTargetValue(sv, v) ==
    IF v = sv.target THEN sv
    ELSE IF sv.stepsToTarget <= 0 THEN smSetCurrentAndTargetValue(sv, v)
    ELSE [sv EXCEPT !.target = v, !.countdown = sv.stepsToTarget,
                    !.step = FDivInt(FSub(v, sv.currentValue), sv.stepsToTarget)]

\* getNextValue: the value it returns is currentValue of the result
smGetNextValue(sv) ==
    IF sv.countdown <= 0 THEN sv
    ELSE IF sv.countdown > 1
         THEN [sv EXCEPT !.countdown = @ - 1, !.currentValue = FAdd(@, sv.step)]
         ELSE [sv EXCEPT !.countdown = 0, !.currentValue = sv.target]

\* skip (numSamples)
smSkip(sv, numSamples) ==
    IF numSamples >= sv.countdown THEN smSetCurrentAndTargetValue(sv, sv.target)
    ELSE [sv EXCEPT !.countdown = @ - numSamples,
                    !.currentValue = FAdd(@, FMul(sv.step, numSamples * One))]


--------------------------------------------------------------------------
(* juce::dsp::StateVariableTPTFilter<float>, the library class behind toneLPF *)

\* tan (pi * cutoff / sampleRate) at the ratios whose tangent is known in closed form
tanPiOver(cutoff, sr) ==
    CASE 4 * cutoff = sr * One -> One
      [] 6 * cutoff = sr * One -> Dec(57735, 100000)
      [] 3 * cutoff = sr * One -> Dec(173205, 100000)

\* update(): g, R2 = 1 / resonance and h = 1 / (1 + R2 g + g g)
tptH(g, R2) == FDiv(One, FAdd(FAdd(One, FMul(R2, g)), FMul(g, g)))
tptCoef(g, R2) == [g |-> g, R2 |-> R2, h |-> tptH(g, R2)]
toneCoef(cutoff, sr) == tptCoef(tanPiOver(cutoff, sr), FDiv(One, Dec(707, 1000)))

\* processSample, lowpass: the three outputs and the two integrator states
tptHP(x, s, c) == FMul(c.h, FSub(FSub(x, FMul(s.s1, FAdd(c.g, c.R2))), s.s2))
tptBP(yHP, s, c) == FAdd(FMul(yHP, c.g), s.s1)
tptLP(yBP, s, c) == FAdd(FMul(yBP, c.g), s.s2)
tptNext(yHP, yBP, yLP, c) ==
    [s1 |-> FAdd(FMul(yHP, c.g), yBP), s2 |-> FAdd(FMul(yBP, c.g), yLP), out |-> yLP]
tptFromBP(yHP, yBP, s, c) == tptNext(yHP, yBP, tptLP(yBP, s, c), c)
tptFromHP(yHP, s, c) == tptFromBP(yHP, tptBP(yHP, s, c), s, c)
processSample(s, x, c) == tptFromHP(tptHP(x, s, c), s, c)

\* a filter after reset()
tptZero == [s1 |-> 0, s2 |-> 0, out |-> 0]


--------------------------------------------------------------------------
(* DelayModule: the delay lines, per sample *)

\* a delay line, a vector of bufSize_ floats, is held as the function of its non-zero
\* entries: an index outside the domain holds 0.0f
At(buf, i) == IF i \in DOMAIN buf THEN buf[i] ELSE 0
Put(buf, i, v) ==
    IF v = 0 THEN [j \in (DOMAIN buf) \ {i} |-> buf[j]]
    ELSE (i :> v) @@ buf
Silent == [j \in {} |-> 0]

\* a constructed DelayModule: empty lines, width 0.7f, a default tone filter
lineDefault ==
    [delayLine |-> << Silent, Silent >>, writePos |-> << 0, 0 >>,
     toneLPF |-> << tptZero, tptZero >>, toneCutoff |-> Dec(1000, 1),
     smoothDelay_ |-> smDefault, width |-> Dec(7, 10), isPingPong |-> FALSE]

\* prepare: lines of bufSize_ zeros, cursors at 0, the tone filters at 20 kHz, the delay
\* time on a 50 ms ramp and at bufSize_ / 4
linePrepare(ln, sr, bs) ==
    [ln EXCEPT !.delayLine = << Silent, Silent >>, !.writePos = << 0, 0 >>,
               !.toneCutoff = Dec(20000, 1),
               !.smoothDelay_ =
                   smSetCurrentAndTargetValue(smReset(@, sr, 50), (bs \div 4) * One)]

\* reset
lineReset(ln) ==
    [ln EXCEPT !.delayLine = << Silent, Silent >>, !.writePos = << 0, 0 >>,
               !.toneLPF = << tptZero, tptZero >>]

\* std::pow (40.0f, tone01) at the ends and the middle of the tone range
Pow40(tone01) ==
    CASE tone01 = 0    -> One
      [] tone01 = Half -> Dec(63246, 10000)
      [] tone01 = One  -> Dec(40, 1)

\* the float nearest to a delay time held in units of 1 / Sample
DelayFloat(dt) == FRound((dt * One) \div Pow2(DelayFracBits))

\* setParameters handing the new delay time over without a ramp
lineSetParameters_Jump(ln, newDelay, tone01, width01, pingPong) ==
    [ln EXCEPT !.width = width01, !.isPingPong = pingPong,
               !.smoothDelay_ = smSetCurrentAndTargetValue(@, newDelay),
               !.toneCutoff = FMul(Dec(500, 1), Pow40(tone01))]

\* setParameters: width, the ping-pong flag, the ramp to the new delay time and the
\* cutoff of the tone filters
lineSetParameters(ln, newDelay, tone01, width01, pingPong) ==
    [ln EXCEPT !.width = width01, !.isPingPong = pingPong,
               !.smoothDelay_ = smSetTargetValue(@, newDelay),
               !.toneCutoff = FMul(Dec(500, 1), Pow40(tone01))]

\* process, the read of one channel: the read position, wrapped, and the linear
\* interpolation between the two slots around it
WrapPos(readPosF, bs) == IF readPosF < 0 THEN FAdd(readPosF, bs * One) ELSE readPosF
ReadPos(wp, currentDelay, bs) == WrapPos(FSub(wp * One, currentDelay), bs)
WrapIdx(i, bs) == IF i < 0 THEN i + bs ELSE IF i >= bs THEN i - bs ELSE i
\* idx1 without the wrap
Idx1_NoWrap(idx0, bs) == idx0 + 1
Idx1(idx0, bs) == IF idx0 + 1 >= bs THEN 0 ELSE idx0 + 1
Interp(buf, idx0, frac, bs) ==
    FAdd(FMul(At(buf, idx0), FSub(One, frac)), FMul(At(buf, Idx1(idx0, bs)), frac))
ReadAt(buf, readPosF, bs) ==
    Interp(buf, WrapIdx(readPosF \div One, bs), readPosF - (readPosF \div One) * One, bs)
ReadDelayed(buf, wp, currentDelay, bs) == ReadAt(buf, ReadPos(wp, currentDelay, bs), bs)

\* process: idx0 and idx1 of the read of each channel
readIndex(wp, currentDelay, bs) == WrapIdx(ReadPos(wp, currentDelay, bs) \div One, bs)
readIndices(ln, currentDelay, bs) ==
    [ch \in 1 .. 2 |-> << readIndex(ln.writePos[ch], currentDelay, bs),
                          Idx1(readIndex(ln.writePos[ch], currentDelay, bs), bs) >>]

\* process, the first loop over the channels: delayed[] of this sample
readAll(ln, currentDelay, bs) ==
    << ReadDelayed(ln.delayLine[1], ln.writePos[1], currentDelay, bs),
       ReadDelayed(ln.delayLine[2], ln.writePos[2], currentDelay, bs) >>

\* process, the feedback input of one channel: its tone filter runs on its own delayed
\* sample and, under ping-pong, once more on the other channel's
feedbackFilter(filtered, other, pingPong, c) ==
    IF pingPong THEN processSample(filtered, other, c) ELSE filtered
feedbackPath(st, own, other, pingPong, c) ==
    feedbackFilter(processSample(st, own, c), other, pingPong, c)

\* process, the width blend of one channel
WidthBlend(own, monoDelay, width) == FAdd(monoDelay, FMul(width, FSub(own, monoDelay)))
wetSample(own, other, width) ==
    IF width < One THEN WidthBlend(own, FMul(FAdd(own, other), Half), width) ELSE own

\* process, the second loop over the channels for one channel of two: the filter
\* memory it leaves, the delayed sample it feeds back, the feedback sample, the value
\* written to the line and the output
channelOut(data, fbk, fbCoef, wet, source) ==
    [tone |-> fbk, fedFrom |-> source, fed |-> FMul(fbk.out, fbCoef),
     written |-> FAdd(data, FMul(fbk.out, fbCoef)), out |-> FAdd(data, wet)]
processChannel(st, data, own, other, ln, fbCoef, c) ==
    channelOut(data, feedbackPath(st, own, other, ln.isPingPong, c), fbCoef,
               wetSample(own, other, ln.width),
               IF ln.isPingPong THEN other ELSE own)

\* both channels, each on the delayed[] it sees
bothChannels(ln, data, fbCoef, c, seenL, seenR) ==
    << processChannel(ln.toneLPF[1], data[1], seenL[1], seenL[2], ln, fbCoef, c),
       processChannel(ln.toneLPF[2], data[2], seenR[2], seenR[1], ln, fbCoef, c) >>

\* the loops fused into one: the left channel runs before the right one's read
channelsAfterReads_Fused(ln, data, fbCoef, c, delayed) ==
    bothChannels(ln, data, fbCoef, c, << delayed[1], 0 >>, delayed)

\* process, the second loop: both channels work on the delayed[] read before
channelsAfterReads(ln, data, fbCoef, c, delayed) ==
    bothChannels(ln, data, fbCoef, c, delayed, delayed)

\* process: writePos[ch]++, back to 0 at bufSize_
Advance(wp, bs) == IF wp + 1 >= bs THEN 0 ELSE wp + 1

\* the members after one sample, r the two channels' results
lineAfter(ln, sv, r, bs) ==
    [ln EXCEPT !.smoothDelay_ = sv,
               !.delayLine = << Put(@[1], ln.writePos[1], r[1].written),
                                Put(@[2], ln.writePos[2], r[2].written) >>,
               !.toneLPF = << r[1].tone, r[2].tone >>,
               !.writePos = << Advance(@[1], bs), Advance(@[2], bs) >>]

\* the delay time advanced once for each channel
delayedAt_PerChannel(ln, sv, bs) ==
    << ReadDelayed(ln.delayLine[1], ln.writePos[1], sv.currentValue, bs),
       ReadDelayed(ln.delayLine[2], ln.writePos[2], smGetNextValue(sv).currentValue, bs) >>

\* process: delayed[] at the delay time advanced once for this sample
delayedAt(ln, sv, bs) == readAll(ln, sv.currentValue, bs)

\* process, one pass of the loop over the samples of a stereo buffer, sv being
\* smoothDelay_ after getNextValue: what was read, the channels' results, the members
sampleResult(ln, sv, delayed, r, bs) ==
    [delayed |-> delayed, currentDelay |-> sv.currentValue,
     idx |-> readIndices(ln, sv.currentValue, bs),
     fedFrom |-> << r[1].fedFrom, r[2].fedFrom >>,
     fed |-> << r[1].fed, r[2].fed >>, out |-> << r[1].out, r[2].out >>,
     line |-> lineAfter(ln, sv, r, bs)]
sampleFrom(ln, data, fbCoef, c, sv, delayed, bs) ==
    sampleResult(ln, sv, delayed, channelsAfterReads(ln, data, fbCoef, c, delayed), bs)
processOne(ln, data, fbCoef, sr, bs) ==
    sampleFrom(ln, data, fbCoef, toneCoef(ln.toneCutoff, sr), smGetNextValue(ln.smoothDelay_),
               delayedAt(ln, smGetNextValue(ln.smoothDelay_), bs), bs)

\* process, one pass of the loop over the samples of a buffer of one channel: channels
\* is 1, so the ping-pong and the width blend are off, the only channel feeds back its
\* own delayed sample and its cursor alone advances
monoAfter(ln, sv, r, bs) ==
    [ln EXCEPT !.smoothDelay_ = sv,
               !.delayLine[1] = Put(@, ln.writePos[1], r.written),
               !.toneLPF[1] = r.tone,
               !.writePos[1] = Advance(@, bs)]
monoResult(ln, sv, delayed, r, bs) ==
    [delayed |-> << delayed, 0 >>, currentDelay |-> sv.currentValue,
     idx |-> << readIndices(ln, sv.currentValue, bs)[1], << 0, 0 >> >>,
     fedFrom |-> << r.fedFrom, 0 >>, fed |-> << r.fed, 0 >>, out |-> << r.out, 0 >>,
     line |-> monoAfter(ln, sv, r, bs)]
monoFrom(ln, data, fbCoef, c, sv, delayed, bs) ==
    monoResult(ln, sv, delayed,
               channelOut(data, processSample(ln.toneLPF[1], delayed, c), fbCoef, delayed, delayed),
               bs)
processOneMono(ln, data, fbCoef, sr, bs) ==
    monoFrom(ln, data, fbCoef, toneCoef(ln.toneCutoff, sr), smGetNextValue(ln.smoothDelay_),
             ReadDelayed(ln.delayLine[1], ln.writePos[1],
                         smGetNextValue(ln.smoothDelay_).currentValue, bs), bs)

\* process on a buffer of so many channels
processPass(channels, ln, data, fbCoef, sr, bs) ==
    IF channels = 1 THEN processOneMono(ln, data[1], fbCoef, sr, bs)
    ELSE processOne(ln, data, fbCoef, sr, bs)


--------------------------------------------------------------------------
(* DelayModule as a state machine: prepare, then blocks of setParameters followed by
   process, one action per sample of the block *)

\* samples per block, and samples per behaviour
LineBlock == 50
MaxTicks == 130

\* the sample rate handed to prepare: the tone filter at its darkest, 500 Hz, then sits
\* at a quarter of it
LineRates == { 2000 }

\* the arguments of setParameters: [syncIndex, feedback, tone01, width01, pingPong, bpm].
\* At 2000 Hz: 1000 samples (the time prepare leaves), 1 sample without and with
\* ping-pong, 5 samples at half width
LineSetting(syncIndex, feedback, tone01, width01, pingPong, bpm) ==
    [syncIndex |-> syncIndex, feedback |-> feedback, tone01 |-> tone01,
     width01 |-> width01, pingPong |-> pingPong, bpm |-> bpm]
LineSettings ==
    { LineSetting(3, Half, 0, One, FALSE, 120),
      LineSetting(0, Half, 0, One, FALSE, 400000),
      LineSetting(0, Half, 0, One, TRUE, 400000),
      LineSetting(0, One, 0, Half, FALSE, 3000) }

\* a host that changes the tempo under a delay of one bar: 3967 samples at 121 BPM,
\* and at 120 BPM 4000 samples, clamped to the 3999 the lines can hold
TempoSettings ==
    { LineSetting(5, Half, 0, One, FALSE, 121),
      LineSetting(5, Half, 0, One, FALSE, 120) }

\* a host that keeps one bar at 121 BPM while the cursors go once around the lines
RingSettings == { LineSetting(5, Half, 0, One, FALSE, 121) }

\* a mono layout: 5 samples, the width set as for stereo
MonoSettings == { LineSetting(0, One, 0, Half, FALSE, 3000) }

SettingsOf(scen) ==
    CASE scen = "tempo" -> TempoSettings
      [] scen = "ring"  -> RingSettings
      [] scen = "oneChannel" -> MonoSettings
      [] OTHER          -> LineSettings

\* the tempo changes are followed over two ramps of the delay time, the cursors until
\* they have wrapped
TicksOf(scen, bs) ==
    CASE scen = "tempo" -> 2 * MaxTicks
      [] scen = "ring"  -> bs + MaxTicks
      [] OTHER          -> MaxTicks

\* the input signal: the same wave on both channels, one impulse on the left after two
\* blocks of silence, two different waves, or silence while the tempo changes or the
\* cursors go around; or a wave in a buffer of one channel, the mono layout
LineScenarios == { "mono", "impulse", "stereo", "tempo", "ring", "oneChannel" }

\* buffer.getNumChannels()
ChannelsOf(scen) == IF scen = "oneChannel" THEN 1 ELSE 2
ImpulseTick == 2 * LineBlock
Wave(tick) == CASE tick % 3 = 0 -> One [] tick % 3 = 1 -> -Half [] OTHER -> 0
LineInput(scen, tick) ==
    CASE scen = "mono"    -> << Wave(tick), Wave(tick) >>
      [] scen = "impulse" -> << IF tick = ImpulseTick THEN One ELSE 0, 0 >>
      [] scen = "tempo"   -> << 0, 0 >>
      [] scen = "ring"    -> << 0, 0 >>
      [] scen = "oneChannel" -> << Wave(tick), Wave(tick) >>
      [] OTHER            -> << Wave(tick), Wave(tick + 1) >>

\* the sample last processed and what is known of the run so far:
\*   monoOk  every buffer was stereo, every input had L = R and every setting ping-pong
\*           off, width 1, feedback > 0
\*   quiet   every input was silence: the lines and the filters are as reset leaves them
\*   armed   one impulse came on the left into a quiet stage, and since then the inputs
\*           were silent, ping-pong was on, feedback > 0 and the delay time constant
\*   rampFrom  the delay time at the last change of its target
\*   idx       idx0 and idx1 of each channel's read
LineIo(scen, phase) ==
    [scen |-> scen, phase |-> phase, tick |-> 0, left |-> 0,
     in |-> << 0, 0 >>, out |-> << 0, 0 >>, delayed |-> << 0, 0 >>,
     fedFrom |-> << 0, 0 >>, fed |-> << 0, 0 >>, currentDelay |-> 0,
     monoOk |-> ChannelsOf(scen) = 2, quiet |-> TRUE, armed |-> FALSE, rampFrom |-> 0,
     idx |-> << << 0, 0 >>, << 0, 0 >> >>]

LineInit ==
    /\ fb = Dec(25, 100)
    /\ delayTarget = 0
    /\ bufSize = 0
    /\ sampleRate = 44100
    /\ lastSet = <<>>
    /\ usedFb = 0
    /\ line = lineDefault
    /\ lineIo \in { LineIo(scen, "new") : scen \in LineScenarios }
    /\ FnIdle /\ BankIdle /\ BlockIdle /\ ConcIdle

\* DelayModule::prepare
LinePrepare ==
    \E sr \in LineRates :
        /\ lineIo.phase = "new"
        /\ sampleRate' = sr
        /\ bufSize' = sr * 2
        /\ delayTarget' = ((sr * 2) \div 4) * Sample
        /\ lastSet' = <<>>
        /\ line' = linePrepare(line, sr, sr * 2)
        /\ lineIo' = [lineIo EXCEPT !.phase = "set",
                                    !.rampFrom = line'.smoothDelay_.currentValue]
        /\ UNCHANGED <<fb, usedFb, fnVars, bankVars, blockVars, concVars>>

\* what a setting keeps of the run's record
SettingKeepsMono(st) == ~st.pingPong /\ st.width01 = One /\ st.feedback > 0
SettingKeepsPing(st, sv) == st.pingPong /\ st.feedback > 0 /\ ~smIsSmoothing(sv)

\* DelayModule::setParameters, at the start of a block
LineSetParameters ==
    \E st \in SettingsOf(lineIo.scen) :
        /\ lineIo.phase = "set"
        /\ lineIo.tick < TicksOf(lineIo.scen, bufSize)
        /\ Configured(setParameters(sampleRate, bufSize, st.syncIndex, st.feedback, st.bpm))
        /\ lastSet' = << st.syncIndex, st.feedback, st.bpm >>
        /\ line' = lineSetParameters(line, DelayFloat(delayTarget'), st.tone01,
                                     st.width01, st.pingPong)
        /\ lineIo' = [lineIo EXCEPT
                         !.phase = "run", !.left = LineBlock,
                         !.monoOk = @ /\ SettingKeepsMono(st),
                         !.armed = @ /\ SettingKeepsPing(st, line'.smoothDelay_),
                         !.rampFrom = IF line'.smoothDelay_.target = line.smoothDelay_.target
                                      THEN @ ELSE line.smoothDelay_.currentValue]
        /\ UNCHANGED <<bufSize, sampleRate, usedFb, fnVars, bankVars, blockVars, concVars>>

IsImpulse(data) == data[1] # 0 /\ data[2] = 0
IsSilence(data) == data[1] = 0 /\ data[2] = 0

\* the run's record after one more sample
Heard(io, data, ln, fbCoef) ==
    [io EXCEPT
        !.monoOk = @ /\ data[1] = data[2],
        !.quiet = @ /\ IsSilence(data),
        !.armed = \/ @ /\ IsSilence(data)
                  \/ /\ io.quiet /\ IsImpulse(data)
                     /\ ln.isPingPong /\ fbCoef > 0 /\ ~smIsSmoothing(ln.smoothDelay_)]

Sampled(io, data, r) ==
    [io EXCEPT !.tick = @ + 1, !.left = @ - 1,
               !.phase = IF io.left = 1 THEN "set" ELSE "run",
               !.in = data, !.out = r.out, !.delayed = r.delayed,
               !.fedFrom = r.fedFrom, !.fed = r.fed, !.currentDelay = r.currentDelay,
               !.idx = r.idx]

\* the members and the record as one pass returning r leaves them
Processed(io, data, r) == line' = r.line /\ lineIo' = Sampled(io, data, r)

\* DelayModule::process, one pass of the loop over the samples
LineProcess ==
    /\ lineIo.phase = "run"
    /\ lineIo.tick < TicksOf(lineIo.scen, bufSize)
    /\ Processed(Heard(lineIo, LineInput(lineIo.scen, lineIo.tick), line, fb),
                 LineInput(lineIo.scen, lineIo.tick),
                 processPass(ChannelsOf(lineIo.scen), line, LineInput(lineIo.scen, lineIo.tick),
                             fb, sampleRate, bufSize))
    /\ usedFb' = fb
    /\ UNCHANGED <<fb, delayTarget, bufSize, sampleRate, lastSet,
                   fnVars, bankVars, blockVars, concVars>>

LineNext == LinePrepare \/ LineSetParameters \/ LineProcess

SpecLine == LineInit /\ [][LineNext]_vars

\* C11: with ping-pong off, width 1 and feedback > 0, from a reset stage, equal left
\* and right inputs on every sample give equal left and right outputs on every
\* sample, over any number of blocks and any changes of the delay time.
C11_MonoStaysMono == lineIo.monoOk => lineIo.out[1] = lineIo.out[2]

\* the repeats are audible while the delay time is still moving
C11_Witness ==
    /\ lineIo.monoOk
    /\ lineIo.tick > LineBlock
    /\ smIsSmoothing(line.smoothDelay_)
    /\ lineIo.delayed[1] # 0
    /\ lineIo.fed[1] # 0
    /\ lineIo.out[1] # lineIo.in[1]
    /\ lineIo.out[1] = lineIo.out[2]


\* C12: with ping-pong on, stereo, feedback > 0 and a constant delay time, from a
\* reset stage, a single impulse on the left input is fed back to the right channel
\* only: what is fed back into the left line holds nothing of the left channel's own
\* delayed sample, so while the right channel's delayed sample is silent the left
\* feedback sample is silent, and the repeat read back on the left is silent too.
C12_RepeatOnOtherSide ==
    lineIo.armed =>
        /\ (lineIo.delayed[2] = 0 => lineIo.fed[1] = 0)
        /\ (lineIo.delayed[1] # 0 /\ lineIo.delayed[2] = 0 => lineIo.fed[2] # 0)
        /\ (lineIo.tick > ImpulseTick + 2 => lineIo.delayed[1] = 0)

\* the first repeat: the left line returns the impulse, the right line is silent
C12_FirstRepeat ==
    /\ lineIo.armed
    /\ lineIo.delayed[1] # 0
    /\ lineIo.delayed[2] = 0


\* what the line of channel ch returned at the delay time cd before this sample's writes
HeldBefore(ch, cd) == ReadDelayed(line.delayLine[ch], line.writePos[ch], cd, bufSize)

\* C19: on every sample the delayed values of both channels are those the lines held
\* before any write of that sample, and the value a channel feeds back, its own delayed
\* sample or under ping-pong the other channel's, is that earlier value.
C19_ReadsBeforeWrites ==
    [][lineIo'.tick = lineIo.tick + 1 =>
          /\ lineIo'.delayed = << HeldBefore(1, lineIo'.currentDelay),
                                  HeldBefore(2, lineIo'.currentDelay) >>
          /\ lineIo'.fedFrom =
                IF line.isPingPong
                THEN << HeldBefore(2, lineIo'.currentDelay), HeldBefore(1, lineIo'.currentDelay) >>
                ELSE << HeldBefore(1, lineIo'.currentDelay), HeldBefore(2, lineIo'.currentDelay) >>]_vars

\* under ping-pong the left channel feeds back what the right line held, a value that
\* differs from its own and from silence
C19_Witness ==
    /\ line.isPingPong
    /\ lineIo.tick > 0
    /\ lineIo.fedFrom[1] = lineIo.delayed[2]
    /\ lineIo.delayed[2] # 0
    /\ lineIo.delayed[1] # lineIo.delayed[2]
    /\ lineIo.fed[1] # 0

\* the spacing of the single-precision values at x
Ulp(x) == Pow2(ExpOver(Abs(x), 0))

\* one pass of the loop of process after the first, and the delay time it used less
\* the delay time the pass before it used
Called_process == lineIo.tick > 0 /\ lineIo'.tick = lineIo.tick + 1
DelayChange == lineIo'.currentDelay - lineIo.currentDelay

\* the ramp increment: the distance from the delay time at the last change of the target
\* to the target, divided by the samples of the 50 ms window
Increment ==
    IF smIsSmoothing(line.smoothDelay_)
    THEN FDivInt(FSub(line.smoothDelay_.target, lineIo.rampFrom),
                 line.smoothDelay_.stepsToTarget)
    ELSE 0

\* a delay time no further than slack outside [1, capacity - 1]
InLine(x, slack) == One - slack <= x /\ x <= (bufSize - 1) * One + slack

\* the spacing of the floats at the capacity, once for each sample of the window
RampSlack == line.smoothDelay_.stepsToTarget * Ulp(bufSize * One)

\* C27 as stated: the delay time used for consecutive samples differs by at most the
\* ramp increment, and a delay time within [1, capacity - 1] stays there.
C27_WithinIncrement ==
    [][Called_process =>
          /\ Abs(DelayChange) <= Abs(Increment)
          /\ InLine(lineIo.currentDelay, 0) => InLine(lineIo'.currentDelay, 0)]_vars

\* C27, amended: the delay time never jumps. The change from one sample to the next
\* differs from the ramp increment by less than one spacing of the floats at the
\* capacity for each sample of the 50 ms window, the last sample of the ramp taking
\* the remainder, and the delay time is outside [1, capacity - 1] by less than that.
C27_WithinRounding ==
    [][Called_process =>
          /\ Abs(DelayChange - Increment) < RampSlack
          /\ InLine(lineIo'.currentDelay, RampSlack - 1)]_vars

\* a ramp from one bar at 121 BPM to the clamped bar at 120 BPM: the additions round
\* upwards, the delay time is past capacity - 1 and still ramping
C27_PastCapacity ==
    /\ lineIo.tick > LineBlock
    /\ smIsSmoothing(line.smoothDelay_)
    /\ line.smoothDelay_.target = (bufSize - 1) * One
    /\ lineIo.currentDelay > (bufSize - 1) * One


\* an index of the delay lines
InRing(i) == i \in 0 .. bufSize - 1

\* the write cursor of channel ch of the buffers this run has processed
CursorOf(ch) == IF ch <= ChannelsOf(lineIo.scen) THEN lineIo.tick % bufSize ELSE 0

\* the read indices of the channels the buffer carries
ReadsInRing ==
    \A ch \in 1 .. ChannelsOf(lineIo.scen) :
        InRing(lineIo.idx[ch][1]) /\ InRing(lineIo.idx[ch][2])

\* C29 as stated: after prepare both channels' write cursors are equal and within
\* [0, capacity - 1] after every sample, having advanced by one with the wrap to 0 at
\* the capacity, and for a delay time in [1, capacity - 1] the read indices idx0 and
\* idx1 are within [0, capacity - 1].
C29_CursorsEqual ==
    lineIo.phase # "new" =>
        /\ line.writePos[1] = line.writePos[2]
        /\ InRing(line.writePos[1])
        /\ line.writePos[1] = lineIo.tick % bufSize
        /\ lineIo.tick > 0 /\ InLine(lineIo.currentDelay, 0) => ReadsInRing

\* C29, amended: after prepare the write cursor of every channel the buffers carry has
\* advanced by one per sample with the wrap to 0 at the capacity, so that under stereo
\* buffers both cursors are equal, the cursor of a channel the buffers do not carry
\* stays at 0, every cursor is within [0, capacity - 1], and for a delay time in
\* [1, capacity - 1] the read indices idx0 and idx1 of every channel read are within
\* [0, capacity - 1].
C29_RingInvariant ==
    lineIo.phase # "new" =>
        /\ \A ch \in 1 .. 2 : line.writePos[ch] = CursorOf(ch) /\ InRing(line.writePos[ch])
        /\ ChannelsOf(lineIo.scen) = 2 => line.writePos[1] = line.writePos[2]
        /\ lineIo.tick > 0 /\ InLine(lineIo.currentDelay, 0) => ReadsInRing

\* the cursors have gone around the lines
C29_CursorWrapped == lineIo.tick = bufSize /\ bufSize > 0 /\ line.writePos = << 0, 0 >>

\* the read that straddles the end of the line takes idx0 at capacity - 1 and idx1 at 0
C29_ReadStraddles ==
    /\ lineIo.tick > 0
    /\ InLine(lineIo.currentDelay, 0)
    /\ lineIo.idx[1] = << bufSize - 1, 0 >>

\* a mono buffer: the first cursor has advanced, the second has not
C29_MonoBuffer ==
    /\ ChannelsOf(lineIo.scen) = 1
    /\ lineIo.tick > LineBlock
    /\ line.writePos = << lineIo.tick, 0 >>
    /\ lineIo.out[1] # lineIo.in[1]

--------------------------------------------------------------------------
(* MacroMorphFXProcessor::prepareToPlay and processBlock, one block per step.

   The filter, drive, delay, reverb and gain stages compute with library DSP
   objects: what they leave in the buffer is an input of the model (a block
   case names the signal), and their memory is carried as
   the parameters last handed to them, the number of samples they have
   processed and the delay's write cursor, which process advances by one
   per sample. *)

MaxBlocks == 4

\* getSceneParamSmoothTimeSec, in milliseconds
getSceneParamSmoothTimeSec(paramIndex) ==
    CASE paramIndex \in {filtMode, delaySync, delayPingP} -> 0
      [] paramIndex = filtCutoff                         -> 20
      [] paramIndex = delayFb                            -> 50
      [] paramIndex \in {revSize, revPreDelay}           -> 100
      [] paramIndex \in Fields                           -> 30
      [] OTHER                                           -> 0

\* prepareToPlay: one parameter smoother, on its ramp length and at the field's default
preparedSmoother(sv, sr, i, inf) ==
    smSetCurrentAndTargetValue(smReset(sv, sr, getSceneParamSmoothTimeSec(i)), inf.defaultVal)

\* prepareToPlay: the bypass crossfade, 10 ms, at 0
preparedBypass(sv, sr) == smSetCurrentAndTargetValue(smReset(sv, sr, 10), 0)

\* the stages as constructed, and as prepare leaves them
stagesDefault == [params |-> <<>>, writePos |-> 0, bufSize_ |-> 0, seen |-> 0]
stagesPrepare(st, sr) == [st EXCEPT !.writePos = 0, !.bufSize_ = sr * 2]

\* processBlock: the target of the crossfade for the bypass parameter
bypassTarget(bypassed) == IF bypassed THEN One ELSE 0

\* processBlock: the test of the fast path, made after setTargetValue
fastPath_Above(sv) == sv.currentValue > Dec(999, 1000)
fastPath(sv) == ~ smIsSmoothing(sv) /\ sv.currentValue > Dec(999, 1000)

\* processBlock step 3: one smoother takes its target and skips the block
retarget_Restart(sv, v, disc, numSamples) ==
    smSkip(IF disc THEN smSetCurrentAndTargetValue(sv, v)
                   ELSE smSetTargetValue([sv EXCEPT !.target = sv.currentValue], v),
           numSamples)

retarget(sv, v, disc, numSamples) ==
    smSkip(IF disc THEN smSetCurrentAndTargetValue(sv, v) ELSE smSetTargetValue(sv, v),
           numSamples)

smoothAll(sm, target, numSamples) ==
    [i \in Fields |-> retarget(sm[i], target[i], info[i].isDiscrete, numSamples)]

\* the targets in the place of the smoothed values
currentValues_Targets(sm) == [i \in Fields |-> sm[i].target]

\* processBlock step 4
currentValues(sm) == [i \in Fields |-> sm[i].currentValue]

\* processBlock step 5 and the setParameters calls of the chain
stageParams(smoothed, bpm) ==
    [filterModule |-> << IntOf(smoothed[filtMode]), smoothed[filtCutoff], smoothed[filtReso] >>,
     driveModule  |-> << smoothed[driveAmt], smoothed[driveTone] >>,
     delayModule  |-> << IntOf(smoothed[delaySync]), smoothed[delayFb], smoothed[delayTone],
                         smoothed[delayWidth], smoothed[delayPingP] > Half, bpm >>,
     reverbModule |-> << smoothed[revSize], smoothed[revDamp], smoothed[revPreDelay],
                         smoothed[revWidth] >>]

\* the stages after the chain has run over numSamples samples
chain(st, smoothed, bpm, numSamples) ==
    [st EXCEPT !.params = stageParams(smoothed, bpm),
               !.writePos = (@ + numSamples) % st.bufSize_, !.seen = @ + numSamples]

\* processBlock step 8: the crossfade runs while the value ramps or is above 0.001
crossfades(sv) == smIsSmoothing(sv) \/ sv.currentValue > Dec(1, 1000)

\* the smoother after each of numSamples getNextValue calls
RECURSIVE nextValues(_, _)
nextValues(sv, numSamples) ==
    IF numSamples = 0 THEN <<>>
    ELSE LET nx == smGetNextValue(sv) IN << nx >> \o nextValues(nx, numSamples - 1)

\* the bypass value used on each sample of a block that is not skipped
valuesOf(svs) == [s \in DOMAIN svs |-> svs[s].currentValue]

bypassValues_Cut(ramp, numSamples) == [s \in 1 .. numSamples |-> ramp.target]

bypassValues(ramp, numSamples) ==
    IF crossfades(ramp)
    THEN valuesOf(nextValues(ramp, numSamples))
    ELSE [s \in 1 .. numSamples |-> ramp.currentValue]

bypassAfter(ramp, numSamples) ==
    IF crossfades(ramp) THEN nextValues(ramp, numSamples)[numSamples] ELSE ramp

\* wet + bv * (dry - wet)
blend(wet, dry, bv) == FAdd(wet, FMul(bv, FSub(dry, wet)))

crossfaded(wet, dry, bv) ==
    [ch \in 1 .. 2 |-> [s \in DOMAIN bv |-> blend(wet[ch][s], dry[ch][s], bv[s])]]

\* processBlock step 9
safetyClamp(x) == Clamp(x, - Dec(4, 1), Dec(4, 1))

clamped(buf) == [ch \in 1 .. 2 |-> [s \in DOMAIN buf[ch] |-> safetyClamp(buf[ch][s])]]

--------------------------------------------------------------------------
(* The host: sample rates, block lengths, the bypass parameter, the signals *)

BlockRates == { 450, 2000 }

\* test signals, sample by sample: beyond the clamp, on it, and inside it
Signal(kind, s) ==
    CASE kind = "loud" -> IF s % 2 = 1 THEN Dec(5, 1) ELSE - Dec(6, 1)
      [] kind = "hot"  -> IF s % 3 = 0 THEN Dec(8, 1) ELSE IF s % 3 = 1 THEN - Dec(45, 10)
                                                                        ELSE Dec(4, 1)
      [] kind = "soft" -> IF s % 2 = 1 THEN Half ELSE - Dec(1, 4)
      [] kind = "warm" -> IF s % 2 = 1 THEN - Dec(3, 1) ELSE Dec(15, 10)

Buffer(kind, numSamples) ==
    << [s \in 1 .. numSamples |-> Signal(kind, s)], [s \in 1 .. numSamples |-> Signal(kind, s + 1)] >>

\* the performance parameters read by a block: scene A, scene B, morph, the macros
BlockSel(k) ==
    IF k = 1 THEN << 2, 5, Half - Tiny, [m \in Macros |-> 0] >>
             ELSE << 2, 5, Half, [m \in Macros |-> One] >>

BlockCase(bypassed, numSamples, dry, wet, sel) ==
    [bypassed |-> bypassed, n |-> numSamples, dry |-> dry, wet |-> wet, sel |-> sel]

BlockCases ==
    { BlockCase(TRUE, 7, "loud", "hot", 1),   BlockCase(TRUE, 20, "soft", "warm", 2),
      BlockCase(TRUE, 20, "loud", "warm", 1), BlockCase(FALSE, 7, "soft", "hot", 2),
      BlockCase(FALSE, 20, "loud", "soft", 1), BlockCase(FALSE, 7, "warm", "warm", 1) }

\* the samples over which each field's target has been the one it is now, counted
\* over the blocks that computed targets
heldAfter(held, before, target, numSamples) ==
    [i \in Fields |-> IF target[i] = before[i] THEN held[i] + numSamples ELSE numSamples]

\* what was seen of a block: its inputs, the crossfade as setTargetValue left it, the
\* bypass value sample by sample, the assignments made to lastComputedParams_ (none
\* before the return of the fast path), the buffer before and after the clamp
BlockSeen(c, ramp, fast, bv, wet, pre, out) ==
    [phase |-> "processed", block |-> blockIo.block + 1, sr |-> blockIo.sr,
     n |-> c.n, bypassed |-> c.bypassed, sel |-> c.sel,
     since |-> IF c.bypassed = blockIo.bypassed THEN blockIo.since + blockIo.n ELSE 0,
     start |-> bypassSmooth.currentValue, settled |-> ~ smIsSmoothing(bypassSmooth),
     ramp |-> ramp, fast |-> fast, bv |-> bv, publishes |-> IF fast THEN 0 ELSE 1,
     held |-> IF fast THEN blockIo.held ELSE heldAfter(blockIo.held, morphed, morphed', c.n),
     dry |-> Buffer(c.dry, c.n), wet |-> wet, pre |-> pre, out |-> out]

BlockInit ==
    /\ Constructed(loadFactoryPresetData([i \in Slots |-> createDefault],
                                         initDefaultMappings, 0))
    /\ morphed = createDefault
    /\ lastOp = "construct"
    /\ ops = 0
    /\ touched = {}
    /\ lastDoc = <<>>
    /\ saved = <<>>
    /\ bypassSmooth = smDefault
    /\ smoothScene = [i \in Fields |-> smDefault]
    /\ lastComputed = createDefault
    /\ stages = stagesDefault
    /\ blockIo = [phase |-> "new", block |-> 0]
    /\ FnIdle /\ DelayIdle /\ LineIdle /\ ConcIdle

\* prepareToPlay
PrepareToPlay ==
    \E sr \in BlockRates :
        /\ blockIo.phase = "new"
        /\ smoothScene' = [i \in Fields |-> preparedSmoother(smoothScene[i], sr, i, info[i])]
        /\ bypassSmooth' = preparedBypass(bypassSmooth, sr)
        /\ stages' = stagesPrepare(stages, sr)
        /\ blockIo' = [phase |-> "prepared", block |-> 0, sr |-> sr, n |-> 0,
                       bypassed |-> FALSE, since |-> sr, held |-> [i \in Fields |-> sr]]
        /\ UNCHANGED <<lastComputed, fnVars, bankVars, delayVars, lineVars, concVars>>

\* processBlock, the fast path: the crossfade skips the block and nothing else is touched
FastBlock(c, ramp) ==
    /\ bypassSmooth' = smSkip(ramp, c.n)
    /\ blockIo' = BlockSeen(c, ramp, TRUE, [s \in 1 .. c.n |-> ramp.currentValue],
                            <<>>, Buffer(c.dry, c.n), Buffer(c.dry, c.n))
    /\ UNCHANGED <<smoothScene, lastComputed, stages, morphed>>

\* the buffer of a block that ran the chain: crossfaded, then clamped
Blended(c, ramp, bv, pre) ==
    blockIo' = BlockSeen(c, ramp, FALSE, bv, Buffer(c.wet, c.n), pre, clamped(pre))

Crossfade(c, ramp, bv) ==
    Blended(c, ramp, bv, crossfaded(Buffer(c.wet, c.n), Buffer(c.dry, c.n), bv))

\* processBlock past the fast path
FullBlock(c, ramp, target) ==
    /\ morphed' = target
    /\ smoothScene' = smoothAll(smoothScene, target, c.n)
    /\ lastComputed' = currentValues(smoothScene')
    /\ stages' = chain(stages, lastComputed', 120, c.n)
    /\ bypassSmooth' = bypassAfter(ramp, c.n)
    /\ Crossfade(c, ramp, bypassValues(ramp, c.n))

BlockRun(c, ramp) ==
    IF fastPath(ramp)
    THEN FastBlock(c, ramp)
    ELSE FullBlock(c, ramp, MorphMacro(scenes, mappings, BlockSel(c.sel)[1], BlockSel(c.sel)[2],
                                       BlockSel(c.sel)[3], BlockSel(c.sel)[4]))

\* processBlock
ProcessBlockAudio ==
    \E c \in BlockCases :
        /\ blockIo.phase # "new"
        /\ blockIo.block < MaxBlocks
        /\ BlockRun(c, smSetTargetValue(bypassSmooth, bypassTarget(c.bypassed)))
        /\ UNCHANGED <<scenes, mappings, lastOp, ops, touched, lastDoc, saved,
                       fnVars, delayVars, lineVars, concVars>>

BlockNext == PrepareToPlay \/ ProcessBlockAudio

SpecBlock == BlockInit /\ [][BlockNext]_vars

\* a block has been processed
Processing == blockIo.phase = "processed"

Samples == { <<ch, s>> : ch \in 1 .. 2, s \in 1 .. blockIo.n }

InClamp(x) == x >= - Dec(4, 1) /\ x <= Dec(4, 1)

\* C13: after every processBlock call, in every bypass state, every output sample
\* is within [-4.0, +4.0]: a sample that was within the range before the clamp is
\* unchanged, a sample outside is -4.0 or +4.0.
C13_OutputClamped ==
    Processing =>
        \A p \in Samples :
            /\ InClamp(blockIo.out[p[1]][p[2]])
            /\ blockIo.out[p[1]][p[2]] = safetyClamp(blockIo.pre[p[1]][p[2]])

\* C13 holds of the blocks that run the chain: active and crossfading
C13_ClampedPastFastPath ==
    Processing /\ ~ blockIo.fast =>
        \A p \in Samples :
            /\ InClamp(blockIo.out[p[1]][p[2]])
            /\ blockIo.out[p[1]][p[2]] = safetyClamp(blockIo.pre[p[1]][p[2]])

\* a block settled in bypass whose input is beyond the clamp
C13_LoudBypassed ==
    Processing /\ blockIo.fast /\ \E p \in Samples : ~ InClamp(blockIo.dry[p[1]][p[2]])

\* a crossfading block with samples beyond the clamp and samples inside it
C13_LoudCrossfade ==
    /\ Processing /\ ~ blockIo.fast /\ smIsSmoothing(blockIo.ramp)
    /\ \E p \in Samples : blockIo.pre[p[1]][p[2]] > Dec(4, 1) /\ blockIo.out[p[1]][p[2]] = Dec(4, 1)
    /\ \E p \in Samples : blockIo.pre[p[1]][p[2]] < - Dec(4, 1)
    /\ \E p \in Samples : InClamp(blockIo.pre[p[1]][p[2]]) /\ blockIo.pre[p[1]][p[2]] # 0

\* the crossfade value before sample s of the block, its change on sample s, the
\* samples run since the bypass parameter last changed, the length of the window
BypassBefore(s) == IF s = 1 THEN blockIo.start ELSE blockIo.bv[s - 1]
BypassChange(s) == blockIo.bv[s] - BypassBefore(s)
Elapsed(s)      == blockIo.since + s
Window          == (blockIo.sr * 10) \div 1000

TowardTarget(d) == IF blockIo.bypassed THEN d >= 0 ELSE d <= 0

\* the buffer before the clamp is wet + bypassValue * (dry - wet), and the dry input
\* on the fast path
BlendedOrDry ==
    IF blockIo.fast
    THEN blockIo.pre = blockIo.dry
    ELSE \A p \in Samples :
             blockIo.pre[p[1]][p[2]] =
                 blend(blockIo.wet[p[1]][p[2]], blockIo.dry[p[1]][p[2]], blockIo.bv[p[2]])

C20_FastPathFrame ==
    [][blockIo'.phase = "processed" /\ blockIo'.block = blockIo.block + 1 =>
          IF blockIo'.bypassed /\ ~ smIsSmoothing(bypassSmooth) /\ bypassSmooth.currentValue = One
          THEN /\ blockIo'.fast
               /\ blockIo'.out = blockIo'.dry
               /\ stages' = stages
               /\ smoothScene' = smoothScene
               /\ lastComputed' = lastComputed
          ELSE /\ ~ blockIo'.fast
               /\ stages'.seen = stages.seen + blockIo'.n
               /\ lastComputed' = currentValues(smoothScene')
               /\ blockIo'.pre = crossfaded(blockIo'.wet, blockIo'.dry, blockIo'.bv)
               /\ blockIo'.out = clamped(blockIo'.pre)]_vars

\* a block skipped after blocks that ran the chain and moved the smoothers
C20_Skipped ==
    /\ Processing /\ blockIo.fast /\ blockIo.bypassed /\ blockIo.start = One
    /\ stages.seen > 0 /\ lastComputed # createDefault
    /\ \E i \in Fields : smIsSmoothing(smoothScene[i])
    /\ blockIo.out = blockIo.dry

\* a step of SpecBlock that is a processBlock call which computed targets
Smoothing == blockIo'.phase = "processed" /\ blockIo'.block = blockIo.block + 1 /\ ~ blockIo'.fast

\* the ramp length of a field has been run through with the target it has now
HeldOut(io, i) == io.held[i] * 1000 >= getSceneParamSmoothTimeSec(i) * io.sr

Between(x, a, b) == Min(a, b) <= x /\ x <= Max(a, b)

\* C21 as stated: for every continuous field, over the processed blocks, the
\* current value of its smoother lies between its previous value and the target,
\* and once the target has been held for the field's ramp duration the current
\* value is the target and stays.
C21_NeverOvershoots ==
    [][Smoothing =>
          \A i \in ContinuousFields :
              /\ Between(smoothScene'[i].currentValue, smoothScene[i].currentValue, morphed'[i])
              /\ HeldOut(blockIo', i) => smoothScene'[i].currentValue = morphed'[i]]_vars

\* the change of one smoother over a block of numSamples samples while its ramp goes on
RampsOn(before, after, numSamples, heldFor) ==
    /\ after.step >= 0 => after.currentValue >= before.currentValue
    /\ after.step <= 0 => after.currentValue <= before.currentValue
    /\ Abs(after.currentValue - before.currentValue) <=
           numSamples * Abs(after.step) + Ulp(after.currentValue)
    /\ \/ Between(after.currentValue, before.currentValue, after.target)
       \/ Abs(after.currentValue - after.target) <
              heldFor * Ulp(Max(Abs(after.currentValue), Abs(after.target)))

\* C21, amended: while a ramp goes on, each processed block moves the current value
\* in the direction of the ramp by numSamples times the increment up to rounding, so
\* that it may pass the target by less than one float spacing per sample processed
\* since the target changed; a block that ends the ramp puts it on the target; once
\* the target has been held for the field's ramp duration the current value is the
\* target and stays.
C21_ConvergesWithinRounding ==
    [][Smoothing =>
          \A i \in ContinuousFields :
              /\ smoothScene'[i].target = morphed'[i]
              /\ IF smIsSmoothing(smoothScene'[i])
                 THEN RampsOn(smoothScene[i], smoothScene'[i], blockIo'.n, blockIo'.held[i])
                 ELSE smoothScene'[i].currentValue = morphed'[i]
              /\ HeldOut(blockIo', i) => smoothScene'[i].currentValue = morphed'[i]]_vars

\* the ramp of field i has run for several blocks on one target and ends in this one
EndsNow(i) ==
    /\ HeldOut(blockIo, i) /\ blockIo.held[i] > blockIo.n
    /\ (blockIo.held[i] - blockIo.n) * 1000 < getSceneParamSmoothTimeSec(i) * blockIo.sr
    /\ smoothScene[i].currentValue = morphed[i]
    /\ morphed[i] # info[i].defaultVal

\* a block that ends the 50 ms ramp of the feedback while the 100 ms ramp of the
\* reverb size, begun in the same block, goes on short of its target
C21_RampsEnded ==
    /\ Processing /\ ~ blockIo.fast
    /\ EndsNow(delayFb)
    /\ blockIo.held[revSize] = blockIo.held[delayFb]
    /\ smIsSmoothing(smoothScene[revSize])
    /\ smoothScene[revSize].currentValue # morphed[revSize]

\* the scenes selected by the block just processed
SceneA(io) == scenes[SceneSel(BlockSel(io.sel)[1])]
SceneB(io) == scenes[SceneSel(BlockSel(io.sel)[2])]

\* the discrete values as the stages take them: mode and sync index as integers, the
\* ping-pong flag as a test against 0.5
HandedOver(params, target) ==
    /\ params.filterModule[1] = IntOf(target[filtMode])
    /\ params.delayModule[1] = IntOf(target[delaySync])
    /\ params.delayModule[5] = (target[delayPingP] > Half)

\* C22: in every processed block the smoothed value of each discrete field, handed
\* to the stages and published in the snapshot, is that block's morph and macro
\* target exactly, which is the value held by scene A or by scene B.
C22_DiscreteSnaps ==
    [][Smoothing =>
          /\ \A i \in DiscreteFields :
                 /\ smoothScene'[i].currentValue = morphed'[i]
                 /\ ~ smIsSmoothing(smoothScene'[i])
                 /\ lastComputed'[i] = morphed'[i]
                 /\ morphed'[i] \in { SceneA(blockIo')[i], SceneB(blockIo')[i] }
          /\ HandedOver(stages'.params, morphed')]_vars

\* every discrete field differs between the two scenes
ScenesApart(io) == \A i \in DiscreteFields : SceneA(io)[i] # SceneB(io)[i]

\* the first block after prepareToPlay, snapped to scene A from the defaults while the
\* continuous fields ramp
C22_FirstBlock ==
    /\ Processing /\ ~ blockIo.fast /\ blockIo.block = 1 /\ ScenesApart(blockIo)
    /\ \A i \in DiscreteFields : lastComputed[i] = SceneA(blockIo)[i]
    /\ \E i \in DiscreteFields : lastComputed[i] # info[i].defaultVal
    /\ \E i \in ContinuousFields : smIsSmoothing(smoothScene[i])

\* a block whose morph position has crossed 0.5 since the block before: the discrete
\* fields are on scene B, the continuous fields ramp
C22_Crossing ==
    /\ Processing /\ ~ blockIo.fast /\ blockIo.block > 1 /\ ScenesApart(blockIo)
    /\ \A i \in DiscreteFields : lastComputed[i] = SceneB(blockIo)[i] /\ blockIo.held[i] = blockIo.n
    /\ \E i \in ContinuousFields : smIsSmoothing(smoothScene[i])

\* a step of SpecBlock that is a processBlock call
Called_processBlock == blockIo'.phase = "processed" /\ blockIo'.block = blockIo.block + 1

\* C23 as stated: every processBlock call publishes exactly one snapshot, equal to
\* the smoothers' current values after the block, also while bypass is requested
\* or settled.
C23_OneSnapshotPerBlock ==
    Processing =>
        /\ blockIo.publishes = 1
        /\ \A i \in Fields : lastComputed[i] = smoothScene[i].currentValue

\* C23, amended: a processBlock call that runs the chain, bypass requested or not,
\* publishes one snapshot, the smoothers' current values after their advance over
\* the block; a call that finds bypass settled publishes none and leaves snapshot
\* and smoothers as they were, so that after every call the snapshot is the
\* smoothers' current values.
C23_SnapshotUnlessSettled ==
    [][Called_processBlock =>
          /\ \A i \in Fields : lastComputed'[i] = smoothScene'[i].currentValue
          /\ IF fastPath(blockIo'.ramp)
             THEN blockIo'.publishes = 0 /\ lastComputed' = lastComputed
                                         /\ smoothScene' = smoothScene
             ELSE /\ blockIo'.publishes = 1
                  /\ \A i \in Fields :
                         smoothScene'[i] =
                             retarget(smoothScene[i], morphed'[i], info[i].isDiscrete, blockIo'.n)]_vars

\* a block run while bypass is requested and the crossfade ramps: the snapshot it
\* publishes differs from the targets in a field that is still ramping
C23_PublishedInCrossfade ==
    /\ Processing /\ blockIo.bypassed /\ smIsSmoothing(blockIo.ramp) /\ blockIo.publishes = 1
    /\ blockIo.block > 1
    /\ \E i \in ContinuousFields : smIsSmoothing(smoothScene[i]) /\ lastComputed[i] # morphed[i]

\* a block that found bypass settled, after a block that published
C23_NothingPublished ==
    /\ Processing /\ blockIo.fast /\ blockIo.publishes = 0
    /\ lastComputed # createDefault

--------------------------------------------------------------------------
(* The two paths of the processor side by side: the real-time path runs
   processBlock step by step (the read of the two scenes, the read of each
   macro's target list inside MacroEngine::apply, the publication of the
   snapshot), the configuration path runs setSceneParam, storeCurrentToScene,
   loadFactoryPreset, setStateInformation and setMappings write by write, in
   the order of the code.  Neither path takes a lock: a read that falls
   inside a write of the same object sees any mix the copy in progress allows. *)

MaxRtBlocks == 1

\* one write of the configuration path: the whole bank, one macro's list, or
\* clearAllMappings
bankWrite(bank) == [kind |-> "scenes", m |-> -1, value |-> bank]
listWrite(m, targets) == [kind |-> "list", m |-> m, value |-> targets]
clearWrites == << [kind |-> "clear", m |-> -1, value |-> <<>>] >>

\* the setMappings calls of loadFactoryPresetData
presetWrites(index) == [k \in 1 .. kNumMacros |-> listWrite(k - 1, PresetMacros(index)[k - 1])]

\* setStateInformation: one setMappings call per <Macro> element with a valid index
RECURSIVE macroWrites(_, _)
macroWrites(elems, k) ==
    IF k > Len(elems) THEN <<>>
    ELSE IF elems[k].index < 0 \/ elems[k].index >= kNumMacros
         THEN macroWrites(elems, k + 1)
         ELSE << listWrite(elems[k].index, ReadTargets(elems[k].targets, 1)) >>
              \o macroWrites(elems, k + 1)

\* the operations the configuration path runs, in this order
ConcOp(name, index, value) == [name |-> name, index |-> index, value |-> value]

ConcOps ==
    << ConcOp("setSceneParam", 0, Dec(200, 1)),
      ConcOp("storeCurrentToScene", 1, 0),
      ConcOp("loadFactoryPreset", 3, 0),
      ConcOp("setMappings", 1, << MacroTarget(delayFb, One, exponential) >>),
      ConcOp("setStateInformation", 0,
             Doc("MacroMorphFXPreset", TRUE,
                 << SceneElem(0, attributes((filtCutoff :> Dec(500, 1))
                                            @@ (filtReso :> Dec(1, 2)))) >>,
                 TRUE,
                 << MacroElem(0, << TargetElem("filtReso", doubleText(Half), 0) >>) >>)) >>

\* the writes an operation makes, in the order of its code
writesOf(op, bank, maps) ==
    CASE op.name = "setSceneParam" ->
             << bankWrite(setSceneParam(bank, op.index, filtCutoff, op.value)) >>
      [] op.name = "storeCurrentToScene" ->
             << bankWrite(storeCurrentToScene(bank, maps, op.index, 0, 1, Half,
                                              [m \in Macros |-> One])) >>
      [] op.name = "loadFactoryPreset" ->
             << bankWrite(PresetScenes(op.index)) >> \o clearWrites \o presetWrites(op.index)
      [] op.name = "setMappings" -> << listWrite(op.index, op.value) >>
      [] op.name = "setStateInformation" ->
             << bankWrite(RestoreScenes(bank, op.value.sceneElems, 1)) >>
             \o clearWrites \o macroWrites(op.value.macroElems, 1)

\* the macro lists once the operation has returned
listsAfter(op, bank, maps) ==
    CASE op.name = "loadFactoryPreset"   -> loadFactoryPresetData(bank, maps, op.index).mappings
      [] op.name = "setMappings"         -> setMappings(maps, op.index, op.value)
      [] op.name = "setStateInformation" -> setStateInformation(bank, maps, op.value).mappings
      [] OTHER                           -> maps

\* what one write leaves in scenes_, mappings_ and lastComputedParams_
listsWritten(w, maps) ==
    CASE w.kind = "list"  -> setMappings(maps, w.m, w.value)
      [] w.kind = "clear" -> clearAllMappings(maps)
      [] OTHER            -> maps

committed_Published(w, bank, maps, snapshot) ==
    [scenes   |-> IF w.kind = "scenes" THEN w.value ELSE bank,
     mappings |-> listsWritten(w, maps),
     snapshot |-> IF w.kind = "scenes" THEN w.value[0] ELSE snapshot]

committed(w, bank, maps, snapshot) ==
    [scenes   |-> IF w.kind = "scenes" THEN w.value ELSE bank,
     mappings |-> listsWritten(w, maps),
     snapshot |-> snapshot]

\* a bank read while it is being copied over: the floats before the cut are new
\* (before the first slot, inside the second, after the last)
tornBank(old, new, cut) ==
    [s \in Slots |-> [f \in Fields |-> IF s * kCount + f < cut THEN new[s][f] ELSE old[s][f]]]

Cuts == { 0, kCount + kCount \div 2, kNumScenes * kCount }

\* a list read while it is being replaced: some part of the old or of the new one
Torn(old, new) ==
    { SubSeq(old, 1, k) : k \in 0 .. Len(old) } \cup { SubSeq(new, 1, k) : k \in 0 .. Len(new) }

\* the write the configuration path is making, if any: a read of the same object
\* falls before it, after it or inside it
Writing(kind) == cfg.todo # <<>> /\ Head(cfg.todo).kind = kind

\* the banks and the lists the real-time path can read now
SeenBanks ==
    IF Writing("scenes") THEN { tornBank(scenes, Head(cfg.todo).value, cut) : cut \in Cuts }
    ELSE { scenes }

SeenLists(m) ==
    CASE Writing("list") /\ Head(cfg.todo).m = m -> Torn(mappings[m], Head(cfg.todo).value)
      [] Writing("clear")                        -> Torn(mappings[m], <<>>)
      [] OTHER                                   -> { mappings[m] }

\* a read of macro m's list by MacroEngine::apply, with the list in force before the
\* change under way and the list that change installs
Observed(m, targets) ==
    [m |-> m, list |-> targets,
     racing |-> Writing("clear") \/ (Writing("list") /\ Head(cfg.todo).m = m),
     old |-> IF cfg.todo = <<>> THEN mappings[m] ELSE cfg.old[m],
     new |-> IF cfg.todo = <<>> THEN mappings[m] ELSE cfg.new[m]]

ConcInit ==
    /\ Constructed(loadFactoryPresetData([i \in Slots |-> createDefault],
                                         initDefaultMappings, 0))
    /\ morphed = createDefault
    /\ lastOp = "construct"
    /\ ops = 0
    /\ touched = {}
    /\ lastDoc = <<>>
    /\ saved = <<>>
    /\ bypassSmooth = preparedBypass(smDefault, 2000)
    /\ smoothScene = [i \in Fields |-> preparedSmoother(smDefault, 2000, i, info[i])]
    /\ lastComputed = createDefault
    /\ stages = stagesPrepare(stagesDefault, 2000)
    /\ blockIo = <<>>
    /\ rt = [pc |-> "idle", blocks |-> 0, m |-> 0, params |-> createDefault,
             mv |-> [m \in Macros |-> 0], seen |-> <<>>,
             done |-> 0, clean |-> TRUE, bankOp |-> "none", lists |-> <<>>]
    /\ cfg = [ops |-> 0, op |-> "none", todo |-> <<>>, old |-> <<>>, new |-> <<>>]
    /\ FnIdle /\ DelayIdle /\ LineIdle

RtFrame == UNCHANGED <<scenes, mappings, lastOp, ops, touched, lastDoc, saved, cfg, bypassSmooth,
                       blockIo, stages, fnVars, delayVars, lineVars>>

\* the performance parameters of the blocks: scene A, scene B, morph, and the macros,
\* the second one fully up and the others at zero
ConcSel == << 0, 1, Half, [m \in Macros |-> IF m = 1 THEN One ELSE 0] >>

\* the operations of the configuration path that have returned
Done == IF cfg.todo = <<>> THEN cfg.ops ELSE cfg.ops - 1

\* processBlock step 1: the two scenes are read and morphed; the block notes how far
\* the configuration path was and which operation, if any, was writing the bank
RtMorph ==
    \E bank \in SeenBanks, again \in SeenBanks :
        /\ rt.pc = "idle"
        /\ rt.blocks < MaxRtBlocks
        /\ rt' = [rt EXCEPT !.pc = "macro", !.m = 0, !.mv = ConcSel[4], !.seen = <<>>,
                            !.done = Done, !.clean = (cfg.todo = <<>>), !.lists = <<>>,
                            !.bankOp = IF Writing("scenes") THEN cfg.op ELSE "none",
                            !.params = morphRacing(bank[SceneSel(ConcSel[1])],
                                                   bank[SceneSel(ConcSel[2])],
                                                   again[SceneSel(ConcSel[1])], ConcSel[3])]
        /\ UNCHANGED <<morphed, smoothScene, lastComputed>>
        /\ RtFrame

\* processBlock step 2, MacroEngine::apply: one macro, its list read unless it is at zero
RtMacro ==
    /\ rt.pc = "macro"
    /\ rt.m < kNumMacros
    /\ IF rt.mv[rt.m] < MacroSkip
       THEN rt' = [rt EXCEPT !.m = @ + 1]
       ELSE \E targets \in SeenLists(rt.m) :
                rt' = [rt EXCEPT !.m = @ + 1,
                                 !.params = ApplyMacro(@, rt.mv[rt.m], targets),
                                 !.seen = Append(@, Observed(rt.m, targets)),
                                 !.clean = @ /\ cfg.todo = <<>> /\ cfg.ops = rt.done,
                                 !.lists = Append(@, << rt.m, targets >>)]
    /\ UNCHANGED <<morphed, smoothScene, lastComputed>>
    /\ RtFrame

\* processBlock steps 3 and 4: the smoothers advance and the snapshot is published
RtPublish ==
    /\ rt.pc = "macro"
    /\ rt.m = kNumMacros
    /\ morphed' = rt.params
    /\ smoothScene' = smoothAll(smoothScene, rt.params, LineBlock)
    /\ lastComputed' = currentValues(smoothScene')
    /\ rt' = [rt EXCEPT !.pc = "idle", !.blocks = @ + 1, !.seen = <<>>]
    /\ RtFrame

CfgFrame == UNCHANGED <<morphed, lastOp, ops, touched, lastDoc, saved, rt, bypassSmooth, smoothScene,
                        blockIo, stages, fnVars, delayVars, lineVars>>

Called(op) ==
    [ops |-> cfg.ops + 1, op |-> op.name, todo |-> writesOf(op, scenes, mappings),
     old |-> mappings, new |-> listsAfter(op, scenes, mappings)]

\* an operation of the configuration path is called
CfgCall ==
    /\ cfg.todo = <<>>
    /\ cfg.ops < Len(ConcOps)
    /\ cfg' = Called(ConcOps[cfg.ops + 1])
    /\ UNCHANGED <<scenes, mappings, lastComputed>>
    /\ CfgFrame

Written(r) == scenes' = r.scenes /\ mappings' = r.mappings /\ lastComputed' = r.snapshot

\* its next write is complete
CfgWrite ==
    /\ cfg.todo # <<>>
    /\ Written(committed(Head(cfg.todo), scenes, mappings, lastComputed))
    /\ cfg' = [cfg EXCEPT !.todo = Tail(@),
                          !.old = IF Len(cfg.todo) = 1 THEN <<>> ELSE @,
                          !.new = IF Len(cfg.todo) = 1 THEN <<>> ELSE @]
    /\ CfgFrame

ConcNext == RtMorph \/ RtMacro \/ RtPublish \/ CfgCall \/ CfgWrite

SpecConc == ConcInit /\ [][ConcNext]_vars

\* C15: a macro's target list read by the real-time path while the configuration
\* path replaces mappings is the complete list in force before the change or the
\* complete list installed by it, never a part of a list or a transient state.
C15_WholeLists ==
    \A k \in DOMAIN rt.seen : rt.seen[k].list \in { rt.seen[k].old, rt.seen[k].new }

\* a list read empty between clearAllMappings and the setMappings call that refills it
C15_SeenCleared ==
    \E k \in DOMAIN rt.seen :
        /\ rt.seen[k].list = <<>> /\ rt.seen[k].old # <<>> /\ rt.seen[k].new # <<>>
        /\ ~ rt.seen[k].racing
        /\ cfg.op = "loadFactoryPreset"

\* C16: only the real-time path writes the last-computed snapshot, and only the
\* configuration path writes the scene bank and the macro target lists, in every
\* interleaving; processBlock modifies no scene slot and no macro list.
C16_SingleWriter ==
    [][/\ rt' # rt => scenes' = scenes /\ mappings' = mappings /\ cfg' = cfg
       /\ cfg' # cfg => lastComputed' = lastComputed /\ rt' = rt
       /\ lastComputed' # lastComputed => rt.pc = "macro" /\ rt'.pc = "idle"
       /\ (scenes' # scenes \/ mappings' # mappings) => cfg'.todo = Tail(cfg.todo)]_vars

\* both paths have written, the real-time path while an operation of the
\* configuration path was under way
C16_Interleaved ==
    /\ rt.blocks > 0 /\ lastComputed # createDefault
    /\ cfg.todo # <<>> /\ cfg.ops > 1
    /\ scenes # PresetScenes(0)
    /\ mappings # PresetMacros(0)

\* the bank an operation of the configuration path leaves
bankAfter(op, bank, maps) ==
    IF op.name = "setMappings" THEN bank ELSE writesOf(op, bank, maps)[1].value

\* the configuration once the first k operations have returned
RECURSIVE ConfigAfter(_)
ConfigAfter(k) ==
    IF k = 0
    THEN loadFactoryPresetData([i \in Slots |-> createDefault], initDefaultMappings, 0)
    ELSE [scenes   |-> bankAfter(ConcOps[k], ConfigAfter(k - 1).scenes, ConfigAfter(k - 1).mappings),
          mappings |-> listsAfter(ConcOps[k], ConfigAfter(k - 1).scenes,
                                  ConfigAfter(k - 1).mappings)]

\* the targets processBlock computes from a configuration
TargetFrom(c) == MorphMacro(c.scenes, c.mappings, ConcSel[1], ConcSel[2], ConcSel[3], ConcSel[4])

\* a block has published: morphed holds its targets, rt what its reads met
Published == rt.pc = "idle" /\ rt.blocks > 0

\* the lists the block read are those in force when it read the bank
ListsAsBefore ==
    \A k \in DOMAIN rt.lists : rt.lists[k][2] = ConfigAfter(rt.done).mappings[rt.lists[k][1]]

SceneEdits == { "setSceneParam", "storeCurrentToScene" }

\* a block all of whose reads fall between two operations of the configuration path
\* computes its targets from the configuration the operations before it left,
\* whatever is edited after its reads
CleanBlock == rt.clean => morphed = TargetFrom(ConfigAfter(rt.done))

\* C25: an edit that arrives after the block's morph and macro steps have read the
\* configuration leaves the block's targets alone, a block that starts once the edit
\* has returned computes its targets from the edited configuration, and a block that
\* reads the bank while a scene is edited derives its target for each field from
\* the value of that field before the edit or from its value after it.
C25_BoundedEdit ==
    Published =>
        /\ CleanBlock
        /\ rt.bankOp \in SceneEdits /\ ListsAsBefore =>
               \A i \in Fields :
                   morphed[i] \in { TargetFrom(ConfigAfter(rt.done))[i],
                                    TargetFrom(ConfigAfter(rt.done + 1))[i] }

\* C25 holds of the blocks that read no object under edit
C25_CleanBlocks == Published => CleanBlock

\* an edit arrived after the block's reads and before it published: its targets are
\* those of the configuration it read
C25_EditAfterReads ==
    /\ Published /\ rt.clean /\ rt.done = 0 /\ Done >= 2
    /\ morphed # TargetFrom(ConfigAfter(Done))

\* a block that started once two edits had returned
C25_NextBlock ==
    /\ Published /\ rt.clean /\ rt.done = 2
    /\ morphed = TargetFrom(ConfigAfter(2)) /\ morphed # TargetFrom(ConfigAfter(0))

\* the cutoff of scene A read twice beside setSceneParam: a target that comes from
\* neither value alone
C25_MixedRead ==
    /\ Published /\ rt.bankOp = "setSceneParam" /\ ListsAsBefore
    /\ morphed[filtCutoff] \notin { TargetFrom(ConfigAfter(rt.done))[filtCutoff],
                                    TargetFrom(ConfigAfter(rt.done + 1))[filtCutoff] }

--------------------------------------------------------------------------
(* Indices and persisted documents, checked under Spec *)

\* C17: no operation reaches outside the 8-slot scene bank, the 14-entry field table
\* or a scene's 14 values, whatever scene index, field index or curve kind it is
\* handed or finds in a macro target: out-of-range indices are clamped, defaulted or
\* ignored.
C17_IndicesInBounds == \A u \in touched : u[2] \in Extent(u[1])

\* C17 for every operation but getStateInformation
C17_CheckedElsewhere ==
    lastOp # "getStateInformation" => \A u \in touched : u[2] \in Extent(u[1])

\* processBlock has run over a list whose target names a field past the table
C17_StrayTargetApplied ==
    /\ lastOp = "processBlock"
    /\ \E m \in Macros : /\ Used("mappings_", m) \in touched
                         /\ \E k \in DOMAIN mappings[m] : mappings[m][k].sceneParamIndex = kCount

\* getStateInformation has saved such a list
C17_StrayTargetSaved ==
    /\ lastOp = "getStateInformation"
    /\ Used("info", kCount) \in touched

\* a scene field, and a macro list, that the document last loaded validly names
NamesField(doc, slot, q) ==
    /\ doc.tag = "MacroMorphFXPreset" /\ doc.hasScenes
    /\ \E k \in DOMAIN doc.sceneElems :
           doc.sceneElems[k].index = slot /\ q \in DOMAIN doc.sceneElems[k].attrs

NamesList(doc, m) ==
    /\ doc.tag = "MacroMorphFXPreset" /\ doc.hasMacros
    /\ \E k \in DOMAIN doc.macroElems : doc.macroElems[k].index = m

Loaded == lastOp' = "setStateInformation" /\ ops' = ops + 1

\* C18: setStateInformation leaves every scene field and every macro target list
\* that the document does not validly name as it was: a missing section leaves the
\* bank or the lists untouched, entries with an out-of-range index, absent
\* attributes and targets with an unknown field name are skipped.
C18_UnnamedStateKept ==
    [][Loaded =>
          /\ \A slot \in Slots, q \in Fields :
                 ~ NamesField(lastDoc', slot, q) => scenes'[slot][q] = scenes[slot][q]
          /\ \A m \in Macros :
                 ~ NamesList(lastDoc', m) => mappings'[m] = mappings[m]]_vars

\* C18 for the scene bank, and for the lists under a document with no MacroMappings
\* section
C18_BankAndMissingSectionKept ==
    [][Loaded =>
          /\ \A slot \in Slots, q \in Fields :
                 ~ NamesField(lastDoc', slot, q) => scenes'[slot][q] = scenes[slot][q]
          /\ ~ (lastDoc'.tag = "MacroMorphFXPreset" /\ lastDoc'.hasMacros)
                 => mappings' = mappings]_vars

\* a document with a MacroMappings section that names one macro has been loaded over
\* four non-empty lists
C18_PartialMacros ==
    /\ lastOp = "setStateInformation"
    /\ lastDoc.hasMacros /\ Len(lastDoc.macroElems) > 0
    /\ ~ NamesList(lastDoc, 1) /\ mappings[1] = <<>>

\* a step of Spec that is a storeCurrentToScene call
Stored == lastOp' = "storeCurrentToScene" /\ ops' = ops + 1

\* C26: storeCurrentToScene (i) with i in 0..7 writes into slot i the state that
\* processBlock computes as its target from the same scene selectors, morph
\* position and macro values, and changes no other slot; with i outside 0..7 the
\* bank is unchanged.  The macro lists are unchanged in both cases.
C26_StoreIsBlockTarget ==
    [][Stored =>
          /\ mappings' = mappings
          /\ IF lastDoc'.sceneIndex \in Slots
             THEN /\ scenes'[lastDoc'.sceneIndex] =
                         MorphMacro(scenes, mappings, lastDoc'.sceneA, lastDoc'.sceneB,
                                    lastDoc'.morph, lastDoc'.macros)
                  /\ \A slot \in Slots \ { lastDoc'.sceneIndex } : scenes'[slot] = scenes[slot]
             ELSE scenes' = scenes]_vars

\* a store into the slot selected as scene B, with a selector below the range, the
\* morph position inside and the macros up: the slot holds a state that is neither
\* scene and not the plain morph
C26_StoredBlend ==
    /\ lastOp = "storeCurrentToScene" /\ ops = 1
    /\ lastDoc.sceneIndex = 1 /\ lastDoc.sceneA = -1 /\ lastDoc.sceneB = 1
    /\ lastDoc.morph = Half /\ lastDoc.macros[0] = One
    /\ scenes[1] \notin { PresetScenes(0)[0], PresetScenes(0)[1] }
    /\ scenes[1] # morph(PresetScenes(0)[0], PresetScenes(0)[1], Half)
    /\ scenes[0] = PresetScenes(0)[0]

\* a store with the index outside 0..7
C26_StoreOutside ==
    /\ lastOp = "storeCurrentToScene" /\ ops = 1 /\ lastDoc.sceneIndex = kNumScenes
    /\ scenes = PresetScenes(0)

--------------------------------------------------------------------------
(* The host saves the state of the processor with getStateInformation, the user
   goes on editing, and the host hands the saved block back to setStateInformation *)

\* edits per behaviour of SpecState
MaxEdits == 2

\* the document of Docs that names a scene and macro lists
PartialDoc == CHOOSE doc \in Docs : doc.hasScenes /\ doc.hasMacros

StateEdits == 1 .. 6
StateEdit(k, bank, maps) ==
    CASE k = 1 -> [scenes |-> setSceneParam(bank, 0, filtCutoff, Dec(200, 1)), mappings |-> maps]
      [] k = 2 -> [scenes |-> bank,
                   mappings |-> setMappings(maps, 2, << MacroTarget(delayFb, One, exponential),
                                                        MacroTarget(filtReso, -Half, sCurve) >>)]
      [] k = 3 -> [scenes |-> bank,
                   mappings |-> setMappings(maps, 1, << MacroTarget(kCount, Half, linear) >>)]
      [] k = 4 -> loadFactoryPresetData(bank, maps, 3)
      [] k = 5 -> [scenes |-> storeCurrentToScene(bank, maps, 7, 0, 1, Half,
                                                  [m \in Macros |-> One]),
                   mappings |-> maps]
      [] k = 6 -> setStateInformation(bank, maps, PartialDoc)

\* what the host holds of a save: the bank and the lists it was made from, the edits
\* made before it, and whether an edit has since left the processor different
Held(bank, maps, edits, away) ==
    [scenes |-> bank, mappings |-> maps, edits |-> edits, away |-> away]

Differs(r, held) == r.scenes # held.scenes \/ r.mappings # held.mappings

EditState ==
    \E k \in StateEdits :
        /\ ops < MaxEdits
        /\ ops' = ops + 1
        /\ lastOp' = "edit"
        /\ Becomes(StateEdit(k, scenes, mappings))
        /\ saved' = IF saved = <<>> THEN saved
                    ELSE [saved EXCEPT !.away = Differs(StateEdit(k, scenes, mappings), saved)]
        /\ UNCHANGED <<morphed, touched, lastDoc, fnVars, delayVars, audioVars>>

\* getStateInformation: the host keeps the document
SaveState ==
    /\ lastOp' = "getStateInformation"
    /\ lastDoc' = getStateInformation(scenes, mappings)
    /\ saved' = Held(scenes, mappings, ops, FALSE)
    /\ UNCHANGED <<scenes, mappings, morphed, ops, touched, fnVars, delayVars, audioVars>>

\* setStateInformation on the document the host kept
RestoreState ==
    /\ saved # <<>>
    /\ lastOp' = "setStateInformation"
    /\ Becomes(setStateInformation(scenes, mappings, lastDoc))
    /\ UNCHANGED <<morphed, ops, touched, lastDoc, saved, fnVars, delayVars, audioVars>>

StateNext == EditState \/ SaveState \/ RestoreState

SpecState == Init /\ [][StateNext]_vars

\* every target of every list names a field
ValidTargets(maps) ==
    \A m \in Macros : \A k \in DOMAIN maps[m] : maps[m][k].sceneParamIndex \in Fields

--------------------------------------------------------------------------
(* MacroEngine as a state machine: the operations that take a macro index, called
   with indices inside and outside 0 .. 3 *)

\* getTargetCount
getTargetCount(maps, macroIndex) ==
    IF macroIndex < 0 \/ macroIndex >= kNumMacros THEN 0 ELSE Len(maps[macroIndex])

\* getMappings: mappings_[macroIndex], the index not checked
getMappingsUses(macroIndex) == { Used("mappings_", macroIndex) }

\* getMappings: the list the reference it returns leads to; outside the array it is
\* whatever lies there, any list
getMappings(maps, macroIndex) ==
    IF macroIndex \in Macros THEN { maps[macroIndex] } ELSE EditTargets

getTargetCountUses(macroIndex) ==
    IF macroIndex < 0 \/ macroIndex >= kNumMacros THEN {} ELSE { Used("mappings_", macroIndex) }

\* the indices the operations are called with
EngineIndices == -1 .. kNumMacros

\* a call and what it returned
Call(macroIndex, result) == [macroIndex |-> macroIndex, result |-> result]

\* a constructed MacroEngine
EngineInit ==
    /\ mappings = initDefaultMappings
    /\ scenes = <<>>
    /\ morphed = <<>>
    /\ lastOp = "construct"
    /\ ops = 0
    /\ touched = {}
    /\ lastDoc = <<>>
    /\ saved = <<>>
    /\ FnIdle /\ DelayIdle /\ AudioIdle

EngineStep(name) ==
    /\ ops < MaxOps
    /\ ops' = ops + 1
    /\ lastOp' = name
    /\ UNCHANGED <<scenes, morphed, saved, fnVars, delayVars, audioVars>>

EngineSetMappings ==
    \E m \in EngineIndices, targets \in EditTargets :
        /\ EngineStep("setMappings")
        /\ mappings' = setMappings(mappings, m, targets)
        /\ touched' = setMappingsUses(m)
        /\ lastDoc' = Call(m, <<>>)

EngineGetMappings ==
    \E m \in EngineIndices :
        \E list \in getMappings(mappings, m) :
            /\ EngineStep("getMappings")
            /\ touched' = getMappingsUses(m)
            /\ lastDoc' = Call(m, list)
            /\ UNCHANGED mappings

EngineGetTargetCount ==
    \E m \in EngineIndices :
        /\ EngineStep("getTargetCount")
        /\ touched' = getTargetCountUses(m)
        /\ lastDoc' = Call(m, << getTargetCount(mappings, m) >>)
        /\ UNCHANGED mappings

EngineClearAllMappings ==
    /\ EngineStep("clearAllMappings")
    /\ mappings' = clearAllMappings(mappings)
    /\ touched' = { Used("mappings_", m) : m \in Macros }
    /\ lastDoc' = <<>>

EngineNext ==
    \/ EngineSetMappings
    \/ EngineGetMappings
    \/ EngineGetTargetCount
    \/ EngineClearAllMappings

SpecEngine == EngineInit /\ [][EngineNext]_vars

\* a call with a macro index outside 0 .. 3
Outside(op) == lastOp' = op /\ lastDoc'.macroIndex \notin Macros

\* C30: every MacroEngine operation that takes a macro index handles an index outside
\* 0 .. 3 without touching the 4-entry mapping array out of bounds: setMappings leaves
\* all four lists unchanged, getTargetCount returns 0, and getMappings does not read
\* outside the array.
C30_IndexHandled ==
    [][/\ Outside("setMappings") => mappings' = mappings
       /\ Outside("getTargetCount") => lastDoc'.result = << 0 >>
       /\ \A u \in touched' : u[2] \in Extent(u[1])]_vars

\* C30 for setMappings and getTargetCount, the two operations that check the index
C30_CheckedOperations ==
    [][/\ Outside("setMappings") => mappings' = mappings
       /\ Outside("getTargetCount") => lastDoc'.result = << 0 >>
       /\ lastOp' # "getMappings" => \A u \in touched' : u[2] \in Extent(u[1])]_vars

\* getMappings called with the index one past the array, where it found a list
C30_ReadPastArray ==
    /\ lastOp = "getMappings"
    /\ lastDoc.macroIndex = kNumMacros
    /\ Used("mappings_", kNumMacros) \in touched
    /\ Len(lastDoc.result) > 0

\* setMappings called with an index outside, on lists that an earlier call had set
C30_SetOutside ==
    /\ lastOp = "setMappings" /\ ops = 2
    /\ lastDoc.macroIndex = -1
    /\ mappings[2] = << MacroTarget(delayFb, One, exponential) >>

==========================================================================
